---- MODULE Spec2Model ----
(***************************************************************************)
(* Model of the opentmk multi-VP, multi-VTL execution framework            *)
(* (opentmk/src/uefi/hypvctx.rs, opentmk/src/uefi/hypercall.rs).           *)
(*                                                                         *)
(* Spec    : the orchestrator.  Every virtual processor (VP) carries one   *)
(*           execution context per VTL (its stack of Rust frames); only    *)
(*           the context of the VP's active VTL takes steps.  The BSP's    *)
(*           VTL0 context runs the test body, every other context runs     *)
(*           HvTestCtx::exec_handler.                                      *)
(* FairSpec: Spec with every VP taking steps while it can (VPs are         *)
(*           hardware threads).                                            *)
(* PageSpec: the hypercall wrappers of HvCall on the two static scratch    *)
(*           pages.  The BSP runs the VTL-protection flow of               *)
(*           tests/hv_misc.rs (twice, side by side, with two values        *)
(*           written by VTL1); the APs issue get_register and low_vtl.     *)
(* CallSpec: one HvCall handle and one caller: initialize / uninitialize,  *)
(*           the enable and start wrappers and the looping wrappers, with  *)
(*           the hypervisor free in its answers.                           *)
(* AllocSpec: the global allocator MemoryAllocator (uefi/alloc.rs).        *)
(* LogSpec : the VPs writing records to the serial ports, through the      *)
(*           macros of slog.rs and through TmkLogger (tmk_logger.rs).      *)
(* ChanSpec: threads calling send, send_priority and recv on the clones of *)
(*           one Channel (sync.rs).                                        *)
(* PanicSpec: the VPs running the panic handler (uefi/rt.rs).              *)
(* OsIdSpec: HvTestCtx values created, initialized, used and dropped, and  *)
(*           the guest-OS identity their handles register.                 *)
(* IdtSpec : set_int_handler on the descriptors read_idtr points at        *)
(*           (arch/x86_64/interrupt.rs), integers as their bits.           *)
(* StackSpec: run_fn_with_current_context and the heap blocks of the       *)
(*           stacks it allocates.                                          *)
(* CmdSpec : the command table CMD under its lock, statement by statement: *)
(*           init's register_command_queue calls, the push_back            *)
(*           statements, the worker loop, the VTL switches.                *)
(***************************************************************************)
EXTENDS Integers, Sequences, FiniteSets, TLC

\* ------------------------------------------------------------ bounds
NumVP == 2
MaxStartCalls == 2
MaxQueueCalls == 1
NumPages == 4
MaxInputElements == 2
MaxHvCalls == 2
MaxHandleCalls == 3
MaxPerCall == 2
MaxHwIds == 3
MaxAllocCalls == 4
MaxLogCalls == 2
RecordLen == 2
NumThreads == 2
Capacity == 2
MaxChanCalls == 4
MaxPanics == 2
NumCtx == 2
MaxCtxSteps == 6
MaxIdtCalls == 1
HeapSlots == 5
MaxRunFnCalls == 2
MaxOtherAllocs == 2
MaxCmdPushes == 2

\* --------------------------------------------------- program constants
Vtl0 == 0
Vtl1 == 1
Vtl2 == 2
BSP == 0
SIZE_1MB == 1048576

VPs == 0..(NumVP - 1)
Vtls == {Vtl0, Vtl1, Vtl2}
RunVtls == {Vtl0, Vtl1}

VARIABLES
    queue,        \* CMD: vp index -> list of commands (closure, target vtl)
    nextId,       \* next command identity (enqueue order)
    stack,        \* stack[v][t]: frames of the context of VP v in VTL t
    ctx,          \* ctx[v][t]: the HvTestCtx owned by that context
    cur,          \* hypervisor: active VTL of VP v
    hvVtl1,       \* hypervisor: VTL1 enabled on VP v
    hvStarted,    \* hypervisor: VP v is running
    status,       \* "ok", or why VP v stopped
    calls,        \* start_on_vp calls the test body has made
    qcalls,       \* queue_command_vp calls the test body has made
    executed,     \* executed[v]: history of command bodies invoked on VP v
    enableOk,     \* history: enable_vp_vtl(v, Vtl1, ..) has returned Ok
    startIssued   \* history: number of start_virtual_processor(v, ..) issued

vars == <<queue, nextId, stack, ctx, cur, hvVtl1, hvStarted, status, calls,
          qcalls, executed, enableOk, startIssued>>

VARIABLES
    inputPage,    \* HVCALL_INPUT: header, first element, further elements
    outputPage,   \* HVCALL_OUTPUT
    hpc,          \* hpc[v]: position of VP v in the wrapper it is running
    own,          \* own[v]: the input VP v's running wrapper has written
    hcalls,       \* hcalls[v]: wrappers VP v has begun
    ownInput,     \* history: every dispatch of VP v read the input v wrote
    ownOutput,    \* history: every output read of VP v read v's own result
    range,        \* the allocation of the test: pages lo .. hi - 1
    current_page, \* apply_vtl2_protections: loop variable
    prot,         \* hypervisor: pages VTL0 may not access
    memA, memB,   \* page contents in the two runs
    obsA, obsB    \* what VTL0 read in the two runs

hvars == <<inputPage, outputPage, hpc, own, hcalls, ownInput, ownOutput, range,
           current_page, prot, memA, memB, obsA, obsB>>

VARIABLES
    initialized,  \* HvCall.initialized of the handle
    cpc,          \* where the handle's caller is: "idle", inside a loop, "panic"
    ncalls,       \* calls made on the handle
    last,         \* history: the call that completed last
    prev,         \* history: the call that completed before it
    partVtl,      \* hypervisor: VTLs enabled for the partition
    vpVtl,        \* hypervisor: <<vp, vtl>> enabled
    vpStarted,    \* hypervisor: VPs started through the handle
    brange,       \* the range of the running batched call
    bcur,         \* current_page of the running batched call
    issued,       \* history: hypercalls the running (or last) looping call issued
    hwIds,        \* get_vp_index_from_hw_id: the input slice
    hwPos,        \* get_vp_index_from_hw_id: ids consumed by finished chunks
    out,          \* get_vp_index_from_hw_id: the output ArrayVec
    out0,         \* history: the output ArrayVec when the call began
    hvcall_vtl,   \* HvCall.vtl
    vsm_read      \* history: what the VsmVpStatus read of initialize() got

cvars == <<initialized, cpc, ncalls, last, prev, partVtl, vpVtl, vpStarted,
           brange, bcur, issued, hwIds, hwPos, out, out0, hvcall_vtl, vsm_read>>

VARIABLES
    use_locked_heap,  \* MemoryAllocator.use_locked_heap
    alog,             \* history: the calls on ALLOCATOR and where each went
    blocks            \* the blocks handed out and not yet given back

avars == <<use_locked_heap, alog, blocks>>

VARIABLES
    port,         \* port[p]: the bytes the serial port p has received
    lock,         \* holder of LOGGER.writter, or NoVp
    lpc,          \* lpc[v]: where VP v is in its logging call
    job,          \* job[v]: the record VP v is writing and the bytes done
    written,      \* history: the records VP v handed to write_str
    asserted      \* history: the conditions VP v's tmk_assert! evaluated

lvars == <<port, lock, lpc, job, written, asserted>>

VARIABLES
    buffer,       \* Channel.buffer: the Vec of the Deque
    mutex,        \* the thread that holds the Mutex of the buffer, or NoThread
    tpc,          \* tpc[t]: where thread t is in its call
    top,          \* top[t]: the call of thread t and its item
    nchan,        \* calls begun so far; the next item is numbered from it
    clog          \* history: the calls that returned, each with the buffer it found

chvars == <<buffer, mutex, tpc, top, nchan, clog>>

VARIABLES
    ppc,          \* ppc[v]: where VP v is in panic_handler
    depth,        \* depth[v]: panics of VP v that entered the handler
    table,        \* history: what system_table_raw() gave VP v last
    plog          \* history: what VP v's handler has done, in order

pvars == <<ppc, depth, table, plog>>

VARIABLES
    handles,      \* handles[h]: "none", or HvCall.initialized of the live context h
    guest_os_id,  \* hypervisor: the guest-OS identity is registered
    olog          \* history: the steps of the contexts, in order

ovars == <<handles, guest_os_id, olog>>

\* The interrupt descriptor table: the descriptors read_idtr points at, the
\* interrupt flag, and what set_int_handler was given and did.
VARIABLES idt, idtr_read, intr_enabled, ilog
ivars == <<idt, idtr_read, intr_enabled, ilog>>

\* The stacks of new VP contexts: the live heap blocks, the number of blocks
\* other code has allocated, and what run_fn_with_current_context was given
\* and returned.
VARIABLES live, nother, rlog
svars == <<live, nother, rlog>>

\* The command table under its lock, statement by statement: the table, the
\* contexts that hold a guard of CMD, the active VTL of each VP, and for each
\* context (vp, vtl) its position, its index in init's loop and the locals
\* cmd and vtl of the worker loop; the push_back calls so far; the calls of
\* register_command_queue that saw or inserted a queue.
VARIABLES cmd_table, cmd_guard, mcur, mpc, mi, mloc, npush, mlog
mvars == <<cmd_table, cmd_guard, mcur, mpc, mi, mloc, npush, mlog>>

allvars == <<vars, hvars, cvars, avars, lvars, chvars, pvars, ovars, ivars, svars, mvars>>

\* What the steps of one component leave alone.
exVp == <<hvars, cvars, avars, lvars, chvars, pvars, ovars, ivars, svars, mvars>>
exPage == <<vars, cvars, avars, lvars, chvars, pvars, ovars, ivars, svars, mvars>>
exCall == <<vars, hvars, avars, lvars, chvars, pvars, ovars, ivars, svars, mvars>>
exAlloc == <<vars, hvars, cvars, lvars, chvars, pvars, ovars, ivars, svars, mvars>>
exLog == <<vars, hvars, cvars, avars, chvars, pvars, ovars, ivars, svars, mvars>>
exChan == <<vars, hvars, cvars, avars, lvars, pvars, ovars, ivars, svars, mvars>>
exPanic == <<vars, hvars, cvars, avars, lvars, chvars, ovars, ivars, svars, mvars>>
exOsId == <<vars, hvars, cvars, avars, lvars, chvars, pvars, ivars, svars, mvars>>
exIdt == <<vars, hvars, cvars, avars, lvars, chvars, pvars, ovars, svars, mvars>>
exStack == <<vars, hvars, cvars, avars, lvars, chvars, pvars, ovars, ivars, mvars>>
exCmd == <<vars, hvars, cvars, avars, lvars, chvars, pvars, ovars, ivars, svars>>

\* ------------------------------------------------------------ values
\* A closure: what it does when invoked, and the (vp, vtl) it refers to.
Body(kind, vp, vtl) == [kind |-> kind, vp |-> vp, vtl |-> vtl]

LogBody == Body("log", 0, 0)

\* A queue entry (Box<dyn FnOnce>, Vtl); id and src are bookkeeping.
Cmd(id, body, vtl, src) == [id |-> id, body |-> body, vtl |-> vtl, src |-> src]

Frame(k, pc, vp, vtl, body, ops) ==
    [k |-> k, pc |-> pc, vp |-> vp, vtl |-> vtl, body |-> body, ops |-> ops]

\* The entry of exec_handler: the rip of every default context.
WorkerFrame == Frame("worker", "init", 0, 0, LogBody, <<>>)

MainFrame == Frame("main", "run", 0, 0, LogBody, <<>>)

\* HvTestCtx::new()
NewCtx == [vp_runing |-> {}, vtl |-> Vtl0, my_vp_idx |-> 0]

\* The closures a test hands to start_on_vp / queue_command_vp.
LowBody == Body("low", 0, 0)

NestBodies == {Body("nest", v, t) : v \in VPs, t \in RunVtls}

\* The calls the test body chooses from: <<vp_index, vtl, closure>>.
StartCalls ==
    (VPs \X RunVtls \X ({LogBody, LowBody} \cup NestBodies))
        \cup (VPs \X {Vtl2} \X {LogBody})

\* A VP index with no queue: register_command_queue ran for 0 .. vp_count - 1.
Unregistered == NumVP

QueueCalls == (VPs \cup {Unregistered}) \X Vtls \X {LogBody, LowBody}

\* The statements of a closure, in order.
BootstrapOps == <<"switch_low">>

\* The bring-up closure with the VP started before its VTL1 is enabled.
BringUpStartsFirst == <<"start_vp", "enable_vp_vtl", "push_setctx", "switch_low">>

\* Lines 101-114: the closure start_on_vp queues to bring up an AP.
BringUpOps == <<"enable_vp_vtl", "start_vp", "push_setctx", "switch_low">>

SetCtxOps == <<"set_vp_registers">>

BodyOps(body) ==
    CASE body.kind = "log" -> <<>>
      [] body.kind = "low" -> <<"switch_low">>
      [] body.kind = "nest" -> <<"start_on_vp">>
      [] body.kind = "bootstrap" -> BootstrapOps
      [] body.kind = "bringup" -> BringUpOps
      [] body.kind = "setctx" -> SetCtxOps

\* ------------------------------------------------------------ helpers
Active(v) == hvStarted[v] /\ status[v] = "ok"

Stk(v) == stack[v][cur[v]]

Top(v) == Stk(v)[Len(Stk(v))]

Running(v) == Active(v) /\ Stk(v) # <<>>

SetTop(s, f) == [s EXCEPT ![Len(s)] = f]

Pop(s) == SubSeq(s, 1, Len(s) - 1)

MyCtx(v) == ctx[v][cur[v]]

\* ------------------------------------------------------------ Init
VpInit ==
    /\ queue = [v \in VPs |-> <<>>]
    /\ nextId = 1
    /\ stack = [v \in VPs |-> [t \in RunVtls |->
                   IF v = BSP /\ t = Vtl0 THEN <<MainFrame>> ELSE <<>>]]
    /\ ctx = [v \in VPs |-> [t \in RunVtls |-> NewCtx]]
    /\ cur = [v \in VPs |-> Vtl0]
    /\ hvVtl1 = [v \in VPs |-> FALSE]
    /\ hvStarted = [v \in VPs |-> v = BSP]
    /\ status = [v \in VPs |-> "ok"]
    /\ calls = 0
    /\ qcalls = 0
    /\ executed = [v \in VPs |-> <<>>]
    /\ enableOk = [v \in VPs |-> FALSE]
    /\ startIssued = [v \in VPs |-> 0]


\* ------------------------------------------------- hypervisor transitions
\* HvCall::high_vtl issues HvCallVtlCall: the VP enters VTL1 when it is in
\* VTL0 and VTL1 is enabled on it; any other vtl_call traps.
VtlCall(v) ==
    IF cur[v] = Vtl0 /\ hvVtl1[v] /\ stack[v][Vtl1] # <<>>
    THEN cur' = [cur EXCEPT ![v] = Vtl1] /\ status' = status
    ELSE cur' = cur /\ status' = [status EXCEPT ![v] = "fault"]

\* HvCall::low_vtl issues HvCallVtlReturn: the VP re-enters VTL0 where that
\* context stopped; a return from VTL0, or into a VTL0 whose registers were
\* never set, traps.
VtlReturn(v) ==
    IF cur[v] = Vtl1 /\ stack[v][Vtl0] # <<>>
    THEN cur' = [cur EXCEPT ![v] = Vtl0] /\ status' = status
    ELSE cur' = cur /\ status' = [status EXCEPT ![v] = "fault"]

\* A switch that stores the VTL it heads for in self.hvcall.vtl.
SwitchCachesTarget(c, target) == [c EXCEPT !.vtl = target]

\* switch_to_high_vtl / switch_to_low_vtl issue the hypercall and leave the
\* context, the cached VTL included, as it is.
SwitchContext(c, target) == c

\* A worker that always switches with vtl_call, whatever the front's target.
SwitchTowardHigh(v, vtl) == VtlCall(v)

\* switch_to_high_vtl / switch_to_low_vtl, chosen by the target VTL.
SwitchToward(v, vtl) == IF vtl = Vtl0 THEN VtlReturn(v) ELSE VtlCall(v)

\* The hypervisor's answer to HvCallEnableVpVtl for a VP.
HvEnableResult(target) == IF hvVtl1[target] THEN "VtlAlreadyEnabled" ELSE "Ok"

\* enable_vp_vtl without the fold of VtlAlreadyEnabled.
EnableVpVtlReturnUnfolded(r) == r

\* HvCall::enable_vp_vtl: what the wrapper returns for a hypervisor result.
EnableVpVtlReturn(r) == IF r \in {"Ok", "VtlAlreadyEnabled"} THEN "Ok" ELSE r

\* LinkedList::push_front where the code has push_back.
PushFront(q, vp, c) == [q EXCEPT ![vp] = <<c>> \o @]

\* LinkedList::push_back on the queue of VP vp.
PushBack(q, vp, c) == [q EXCEPT ![vp] = Append(@, c)]

\* A worker that reads the front command with front() and leaves it queued.
PopFrontKeeps(q, vp) == q

\* LinkedList::pop_front on the queue of VP vp.
PopFront(q, vp) == [q EXCEPT ![vp] = Tail(@)]

\* A worker that runs the front command whatever its target VTL.
VtlMatchesAlways(tag, cached) == TRUE

\* exec_handler's test of the front command against the cached VTL.
VtlMatches(tag, cached) == tag = cached

\* A guard written with > where the code has >=.
RejectsAboveVtl2(vtl) == vtl > Vtl2

\* start_on_vp's guard on the target VTL.
RejectsVtl(vtl) == vtl >= Vtl2

\* ------------------------------------------------------------ test body
\* The test body calls start_on_vp(vp, vtl, body).
MainStartOnVp(v) ==
    /\ Running(v) /\ Top(v).k = "main" /\ calls < MaxStartCalls
    /\ \E call \in StartCalls :
          stack' = [stack EXCEPT ![v][cur[v]] =
              Append(@, Frame("start", "entry", call[1], call[2], call[3], <<>>))]
    /\ calls' = calls + 1
    /\ UNCHANGED <<queue, nextId, ctx, cur, hvVtl1, hvStarted, status, qcalls,
                   executed, enableOk, startIssued>>
    /\ UNCHANGED exVp

\* A queue_command_vp that hands the command to every VP.
QueueCommandVpBroadcast(v, vp, vtl, b) ==
    /\ queue' = [u \in VPs |-> Append(queue[u], Cmd(nextId, b, vtl, "queue"))]
    /\ nextId' = nextId + 1
    /\ status' = status

\* queue_command_vp(vp, vtl, body): push_back on queue[vp], nothing else;
\* get_mut(&vp_index).unwrap() panics when the index has no queue.
QueueCommandVp(v, vp, vtl, b) ==
    IF vp \in DOMAIN queue
    THEN /\ queue' = PushBack(queue, vp, Cmd(nextId, b, vtl, "queue"))
         /\ nextId' = nextId + 1
         /\ status' = status
    ELSE /\ status' = [status EXCEPT ![v] = "panic_noqueue"]
         /\ UNCHANGED <<queue, nextId>>

MainQueueCommandVp(v) ==
    /\ Running(v) /\ Top(v).k = "main" /\ qcalls < MaxQueueCalls
    /\ \E call \in QueueCalls : QueueCommandVp(v, call[1], call[2], call[3])
    /\ qcalls' = qcalls + 1
    /\ UNCHANGED <<stack, ctx, cur, hvVtl1, hvStarted, calls,
                   executed, enableOk, startIssued>>
    /\ UNCHANGED exVp

\* ------------------------------------------------------------ start_on_vp
\* Lines 72-121 up to the first effect outside the context: the Vtl2 guard,
\* the lookup in self.vp_runing, then enable_vp_vtl(0, Vtl1, ..) when
\* vp_index == 0, else the push of the bring-up closure on queue[my_vp_idx].
StartEntry(v) ==
    /\ Running(v) /\ Top(v).k = "start" /\ Top(v).pc = "entry"
    /\ LET f == Top(v)
           c == MyCtx(v)
       IN  IF RejectsVtl(f.vtl)
           THEN /\ status' = [status EXCEPT ![v] = "panic_vtl2"]
                /\ UNCHANGED <<queue, nextId, stack, ctx, cur, hvVtl1,
                               hvStarted, enableOk>>
           ELSE IF f.vp \in c.vp_runing
           THEN /\ stack' = [stack EXCEPT ![v][cur[v]] =
                                SetTop(@, [f EXCEPT !.pc = "push"])]
                /\ UNCHANGED <<queue, nextId, ctx, cur, hvVtl1, hvStarted,
                               status, enableOk>>
           ELSE IF f.vp = BSP
           THEN IF EnableVpVtlReturn(HvEnableResult(BSP)) = "Ok"
                THEN /\ stack' = [stack EXCEPT
                            ![v][cur[v]] = SetTop(@, [f EXCEPT !.pc = "bsp_push"]),
                            ![BSP][Vtl1] = IF hvVtl1[BSP] THEN @ ELSE <<WorkerFrame>>]
                     /\ hvVtl1' = [hvVtl1 EXCEPT ![BSP] = TRUE]
                     /\ enableOk' = [enableOk EXCEPT ![BSP] = TRUE]
                     /\ UNCHANGED <<queue, nextId, ctx, cur, hvStarted, status>>
                ELSE /\ status' = [status EXCEPT ![v] = "panic_enable"]
                     /\ UNCHANGED <<queue, nextId, stack, ctx, cur, hvVtl1,
                                    hvStarted, enableOk>>
           ELSE /\ queue' = PushBack(queue, c.my_vp_idx,
                               Cmd(nextId, Body("bringup", f.vp, Vtl1), Vtl1, "internal"))
                /\ nextId' = nextId + 1
                /\ stack' = [stack EXCEPT ![v][cur[v]] =
                                SetTop(@, [f EXCEPT !.pc = "switch"])]
                /\ UNCHANGED <<ctx, cur, hvVtl1, hvStarted, status, enableOk>>
    /\ UNCHANGED <<calls, qcalls, executed, startIssued>>
    /\ UNCHANGED exVp

\* Lines 90-95: the bootstrap closure (switch_to_low_vtl) goes on queue[vp_index].
StartBspPush(v) ==
    /\ Running(v) /\ Top(v).k = "start" /\ Top(v).pc = "bsp_push"
    /\ queue' = PushBack(queue, Top(v).vp,
                    Cmd(nextId, Body("bootstrap", Top(v).vp, Vtl1), Vtl1, "internal"))
    /\ nextId' = nextId + 1
    /\ stack' = [stack EXCEPT ![v][cur[v]] =
                    SetTop(@, [Top(v) EXCEPT !.pc = "switch"])]
    /\ UNCHANGED <<ctx, cur, hvVtl1, hvStarted, status, calls, qcalls, executed,
                   enableOk, startIssued>>
    /\ UNCHANGED exVp

\* Lines 96 and 118: self.switch_to_high_vtl(); the call returns when this
\* context is entered again.
StartSwitchHigh(v) ==
    /\ Running(v) /\ Top(v).k = "start" /\ Top(v).pc = "switch"
    /\ stack' = [stack EXCEPT ![v][cur[v]] =
                    SetTop(@, [Top(v) EXCEPT !.pc = "mark"])]
    /\ VtlCall(v)
    /\ ctx' = [ctx EXCEPT ![v][cur[v]] = SwitchContext(@, Vtl1)]
    /\ UNCHANGED <<queue, nextId, hvVtl1, hvStarted, calls, qcalls, executed,
                   enableOk, startIssued>>
    /\ UNCHANGED exVp

\* Lines 97/119 (vp_runing.push, after the switch returned) and 122-126:
\* push_back of (cmd, vtl) on queue[vp_index].
StartPush(v) ==
    /\ Running(v) /\ Top(v).k = "start" /\ Top(v).pc \in {"mark", "push"}
    /\ LET f == Top(v)
       IN  /\ ctx' = IF f.pc = "mark"
                     THEN [ctx EXCEPT ![v][cur[v]].vp_runing = @ \cup {f.vp}]
                     ELSE ctx
           /\ queue' = PushBack(queue, f.vp, Cmd(nextId, f.body, f.vtl, "start"))
           /\ nextId' = nextId + 1
           /\ stack' = [stack EXCEPT ![v][cur[v]] =
                           SetTop(@, [f EXCEPT !.pc = "final"])]
    /\ UNCHANGED <<cur, hvVtl1, hvStarted, status, calls, qcalls, executed,
                   enableOk, startIssued>>
    /\ UNCHANGED exVp

\* Lines 127-133: on the caller's own VP, switch toward the target VTL when
\* the cached VTL differs; then return.
StartFinal(v) ==
    /\ Running(v) /\ Top(v).k = "start" /\ Top(v).pc = "final"
    /\ LET f == Top(v)
           c == MyCtx(v)
       IN  IF f.vp = c.my_vp_idx /\ c.vtl # f.vtl
           THEN /\ stack' = [stack EXCEPT ![v][cur[v]] =
                                SetTop(@, [f EXCEPT !.pc = "ret"])]
                /\ SwitchToward(v, f.vtl)
                /\ ctx' = [ctx EXCEPT ![v][cur[v]] = SwitchContext(@, f.vtl)]
           ELSE /\ stack' = [stack EXCEPT ![v][cur[v]] = Pop(@)]
                /\ UNCHANGED <<cur, status, ctx>>
    /\ UNCHANGED <<queue, nextId, hvVtl1, hvStarted, calls, qcalls, executed,
                   enableOk, startIssued>>
    /\ UNCHANGED exVp

\* A closure that ran to its end, or start_on_vp after its last switch,
\* returns to its caller.
FrameReturn(v) ==
    /\ Running(v)
    /\ \/ Top(v).k = "body" /\ Top(v).ops = <<>>
       \/ Top(v).k = "start" /\ Top(v).pc = "ret"
    /\ stack' = [stack EXCEPT ![v][cur[v]] = Pop(@)]
    /\ UNCHANGED <<queue, nextId, ctx, cur, hvVtl1, hvStarted, status, calls, qcalls,
                   executed, enableOk, startIssued>>
    /\ UNCHANGED exVp


\* ------------------------------------------------------------ closures
BodyAt(v, op) ==
    /\ Running(v) /\ Top(v).k = "body"
    /\ Top(v).ops # <<>> /\ Head(Top(v).ops) = op

Advance(f) == [f EXCEPT !.ops = Tail(@)]

\* ctx.switch_to_low_vtl()
BodySwitchLow(v) ==
    /\ BodyAt(v, "switch_low")
    /\ stack' = [stack EXCEPT ![v][cur[v]] = SetTop(@, Advance(Top(v)))]
    /\ VtlReturn(v)
    /\ ctx' = [ctx EXCEPT ![v][cur[v]] = SwitchContext(@, Vtl0)]
    /\ UNCHANGED <<queue, nextId, hvVtl1, hvStarted, calls, qcalls, executed,
                   enableOk, startIssued>>
    /\ UNCHANGED exVp

\* ctx.enable_vp_vtl_with_default_context(vp_index, Vtl1): the context's rip
\* is exec_handler; an error other than VtlAlreadyEnabled panics.
BodyEnableVpVtl(v) ==
    /\ BodyAt(v, "enable_vp_vtl")
    /\ LET target == Top(v).body.vp
       IN  IF EnableVpVtlReturn(HvEnableResult(target)) = "Ok"
           THEN /\ stack' = [stack EXCEPT
                       ![v][cur[v]] = SetTop(@, Advance(Top(v))),
                       ![target][Vtl1] = IF hvVtl1[target] THEN @ ELSE <<WorkerFrame>>]
                /\ hvVtl1' = [hvVtl1 EXCEPT ![target] = TRUE]
                /\ enableOk' = [enableOk EXCEPT ![target] = TRUE]
                /\ status' = status
           ELSE /\ status' = [status EXCEPT ![v] = "panic_enable"]
                /\ UNCHANGED <<stack, hvVtl1, enableOk>>
    /\ UNCHANGED <<queue, nextId, ctx, cur, hvStarted, calls, qcalls, executed,
                   startIssued>>
    /\ UNCHANGED exVp

\* ctx.start_running_vp_with_default_context(vp_index, Vtl1): the hypervisor
\* refuses a VP that is already running, and start_virtual_processor panics
\* on every error.  Whether it refuses a VP whose VTL1 was never enabled is
\* left open: both answers are allowed.
BodyStartVp(v) ==
    /\ BodyAt(v, "start_vp")
    /\ LET target == Top(v).body.vp
       IN  /\ startIssued' = [startIssued EXCEPT ![target] = @ + 1]
           /\ \E accept \in IF hvStarted[target] THEN {FALSE}
                            ELSE IF hvVtl1[target] THEN {TRUE}
                            ELSE {TRUE, FALSE} :
                IF accept
                THEN /\ hvStarted' = [hvStarted EXCEPT ![target] = TRUE]
                     /\ cur' = [cur EXCEPT ![target] = Vtl1]
                     /\ stack' = [stack EXCEPT
                            ![v][cur[v]] = SetTop(@, Advance(Top(v))),
                            ![target][Vtl1] = <<WorkerFrame>>]
                     /\ status' = status
                ELSE /\ status' = [status EXCEPT ![v] = "panic_start"]
                     /\ UNCHANGED <<hvStarted, cur, stack>>
    /\ UNCHANGED <<queue, nextId, ctx, hvVtl1, calls, qcalls, executed, enableOk>>
    /\ UNCHANGED exVp

\* Lines 107-112: the closure that sets VP vp_index's VTL0 registers goes on
\* queue[vp_index], tagged Vtl1.
BodyPushSetCtx(v) ==
    /\ BodyAt(v, "push_setctx")
    /\ LET target == Top(v).body.vp
       IN  queue' = PushBack(queue, target,
                        Cmd(nextId, Body("setctx", target, Vtl0), Vtl1, "internal"))
    /\ nextId' = nextId + 1
    /\ stack' = [stack EXCEPT ![v][cur[v]] = SetTop(@, Advance(Top(v)))]
    /\ UNCHANGED <<ctx, cur, hvVtl1, hvStarted, status, calls, qcalls, executed,
                   enableOk, startIssued>>
    /\ UNCHANGED exVp

\* ctx.set_default_ctx_to_vp(vp_index, Vtl0): VTL0 of that VP will run
\* exec_handler on a new stack when it is next entered.
BodySetVpRegisters(v) ==
    /\ BodyAt(v, "set_vp_registers")
    /\ stack' = [stack EXCEPT
           ![v][cur[v]] = SetTop(@, Advance(Top(v))),
           ![Top(v).body.vp][Vtl0] = <<WorkerFrame>>]
    /\ UNCHANGED <<queue, nextId, ctx, cur, hvVtl1, hvStarted, status, calls, qcalls,
                   executed, enableOk, startIssued>>
    /\ UNCHANGED exVp

\* A test closure calls ctx.start_on_vp(vp, vtl, <logging closure>).
BodyStartOnVp(v) ==
    /\ BodyAt(v, "start_on_vp")
    /\ stack' = [stack EXCEPT ![v][cur[v]] =
           Append(SetTop(@, Advance(Top(v))),
                  Frame("start", "entry", Top(v).body.vp, Top(v).body.vtl,
                        LogBody, <<>>))]
    /\ UNCHANGED <<queue, nextId, ctx, cur, hvVtl1, hvStarted, status, calls, qcalls,
                   executed, enableOk, startIssued>>
    /\ UNCHANGED exVp

\* ------------------------------------------------------------ exec_handler
WorkerAt(v, pc) == Running(v) /\ Top(v).k = "worker" /\ Top(v).pc = pc

\* Lines 327-334: a new context; initialize() caches the VTL the VP is in,
\* and my_vp_idx is read from the VpIndex register.
WorkerInit(v) ==
    /\ WorkerAt(v, "init")
    /\ ctx' = [ctx EXCEPT ![v][cur[v]] =
                  [vp_runing |-> {}, vtl |-> cur[v], my_vp_idx |-> v]]
    /\ stack' = [stack EXCEPT ![v][cur[v]] =
                    SetTop(@, [Top(v) EXCEPT !.pc = "loop"])]
    /\ UNCHANGED <<queue, nextId, cur, hvVtl1, hvStarted, status, calls, qcalls,
                   executed, enableOk, startIssued>>
    /\ UNCHANGED exVp

MyQueue(v) == queue[MyCtx(v).my_vp_idx]

\* One iteration with an empty queue.
WorkerSpin(v) ==
    /\ WorkerAt(v, "loop")
    /\ MyQueue(v) = <<>>
    /\ UNCHANGED vars
    /\ UNCHANGED exVp

\* One iteration whose front command matches the cached VTL: pop_front and
\* invoke cmd(&mut ctx).
WorkerPop(v) ==
    /\ WorkerAt(v, "loop")
    /\ MyQueue(v) # <<>>
    /\ LET c == Head(MyQueue(v))
       IN  /\ VtlMatches(c.vtl, MyCtx(v).vtl)
           /\ queue' = PopFront(queue, MyCtx(v).my_vp_idx)
           /\ executed' = [executed EXCEPT ![v] = Append(@,
                  [id |-> c.id, tag |-> c.vtl, vtl |-> cur[v], src |-> c.src,
                   kind |-> c.body.kind, en |-> enableOk[v],
                   from |-> MyCtx(v).my_vp_idx])]
           /\ stack' = [stack EXCEPT ![v][cur[v]] =
                  Append(@, Frame("body", "run", c.body.vp, c.body.vtl, c.body,
                                  BodyOps(c.body)))]
    /\ UNCHANGED <<nextId, ctx, cur, hvVtl1, hvStarted, status, calls, qcalls,
                   enableOk, startIssued>>
    /\ UNCHANGED exVp

\* One iteration whose front command has another target VTL: the command
\* stays, the worker switches toward its VTL.
WorkerSwitch(v) ==
    /\ WorkerAt(v, "loop")
    /\ MyQueue(v) # <<>>
    /\ ~VtlMatches(Head(MyQueue(v)).vtl, MyCtx(v).vtl)
    /\ SwitchToward(v, Head(MyQueue(v)).vtl)
    /\ ctx' = [ctx EXCEPT ![v][cur[v]] = SwitchContext(@, Head(MyQueue(v)).vtl)]
    /\ UNCHANGED <<queue, nextId, stack, hvVtl1, hvStarted, calls, qcalls,
                   executed, enableOk, startIssued>>
    /\ UNCHANGED exVp

\* ====================================================== hypercall pages
Pages == 0..(NumPages - 1)
APs == VPs \ {BSP}

\* Values VTL1 writes at ptr + 10; hv_misc.rs writes 0xAA.
Secrets == {170, 85}

RegNames == {"VsmVpStatus", "Cr3"}

\* One 8-byte element of a hypercall page: a page number or a register name.
Word(t, gpn, reg) == [t |-> t, gpn |-> gpn, reg |-> reg]
ZeroWord == Word("zero", 0, "")

\* An HvcallPage: the 16-byte header, the element behind it, the elements
\* after that one.
HvPage(hdr, w0, rest) == [hdr |-> hdr, w0 |-> w0, rest |-> rest]

\* HvcallPage::new(), and buffer.fill(0).
ZeroPage == HvPage("zero", ZeroWord, {})

RegValue(vp, reg) == [vp |-> vp, reg |-> reg]
ZeroValue == RegValue(BSP, "")

Obs(fault, val) == [fault |-> fault, val |-> val]

PageInit ==
    /\ inputPage = ZeroPage
    /\ outputPage = ZeroValue
    /\ hpc = [v \in VPs |-> IF v = BSP THEN "alloc" ELSE "idle"]
    /\ own = [v \in VPs |-> ZeroPage]
    /\ hcalls = [v \in VPs |-> 0]
    /\ ownInput = [v \in VPs |-> TRUE]
    /\ ownOutput = [v \in VPs |-> TRUE]
    /\ range = [lo |-> 0, hi |-> 0]
    /\ current_page = 0
    /\ prot = {}
    /\ memA = [p \in Pages |-> 0]
    /\ memB = [p \in Pages |-> 0]
    /\ obsA = Obs(FALSE, 0)
    /\ obsB = Obs(FALSE, 0)

\* The input a dispatch reads is the input the dispatching wrapper wrote.
SameInput(page, mine) ==
    /\ page.hdr = mine.hdr
    /\ page.w0 = mine.w0
    /\ page.rest = mine.rest

\* A batch computed against one element more than fits the page.
BatchCountOverfull(cp, hi) ==
    IF hi - cp < MaxInputElements + 1 THEN hi - cp ELSE MaxInputElements + 1

\* remaining_pages.min(MAX_INPUT_ELEMENTS)
BatchCount(cp, hi) == IF hi - cp < MaxInputElements THEN hi - cp ELSE MaxInputElements

\* Hypervisor, HvCallModifyVtlProtectionMask on the input page as it stands
\* at the dispatch: the possible results.  A header of another hypercall is
\* rejected; a first element that is not the page number the wrapper wrote
\* names no page of the range, and the call is rejected or goes through on
\* the remaining elements.
HvModifyVtlProtectionMask(page) ==
    IF page.hdr # "ModifyVtlProtectionMask"
    THEN {[ok |-> FALSE, pages |-> {}]}
    ELSE IF page.w0.t = "gpn"
    THEN {[ok |-> TRUE, pages |-> {page.w0.gpn} \cup page.rest]}
    ELSE {[ok |-> FALSE, pages |-> {}], [ok |-> TRUE, pages |-> page.rest]}

\* Hypervisor, HvCallGetVpRegisters of VP v on the input page as it stands at
\* the dispatch.  GetSetVpRegisters and ModifyVtlProtectionMask share their
\* layout: under the latter's header the vp_index field holds map_flags = 0.
HvGetVpRegisters(v, page) ==
    IF page.w0.t # "reg" \/ page.hdr = "zero"
    THEN [ok |-> FALSE, value |-> ZeroValue]
    ELSE [ok |-> TRUE,
          value |-> RegValue(IF page.hdr = "GetSetVpRegisters" THEN v ELSE BSP,
                             page.w0.reg)]

\* Hypervisor: a VTL0 load from page p.
Vtl0Read(mem, p) == IF p \in prot THEN Obs(TRUE, 0) ELSE Obs(FALSE, mem[p])

HGoto(v, pc) == hpc' = [hpc EXCEPT ![v] = pc]

\* ------------------------------------------------ tests/hv_misc.rs, VTL1
\* Lines 59-61: ALLOCATOR.alloc(layout).
MiscAlloc ==
    /\ hpc[BSP] = "alloc"
    /\ \E lo \in Pages : \E hi \in (lo + 1)..NumPages :
           range' = [lo |-> lo, hi |-> hi]
    /\ HGoto(BSP, "write")
    /\ UNCHANGED <<inputPage, outputPage, own, hcalls, ownInput, ownOutput,
                   current_page, prot, memA, memB, obsA, obsB>>
    /\ UNCHANGED exPage

\* Lines 63-67: *ptr.add(10) = value, in the two runs.
MiscWrite ==
    /\ hpc[BSP] = "write"
    /\ \E a \in Secrets : \E b \in Secrets \ {a} :
           /\ memA' = [memA EXCEPT ![range.lo] = a]
           /\ memB' = [memB EXCEPT ![range.lo] = b]
    /\ HGoto(BSP, "setup")
    /\ UNCHANGED <<inputPage, outputPage, own, hcalls, ownInput, ownOutput,
                   range, current_page, prot, obsA, obsB>>
    /\ UNCHANGED exPage

\* Line 70: ctx.setup_vtl_protection().
MiscSetupVtlProtection ==
    /\ hpc[BSP] = "setup"
    /\ HGoto(BSP, "begin")
    /\ UNCHANGED <<inputPage, outputPage, own, hcalls, ownInput, ownOutput,
                   range, current_page, prot, memA, memB, obsA, obsB>>
    /\ UNCHANGED exPage

\* ------------------------------------------------ apply_vtl2_protections
\* Line 226: current_page = range.start_4k_gpn().
ApplyBegin ==
    /\ hpc[BSP] = "begin"
    /\ current_page' = range.lo
    /\ HGoto(BSP, "apply")
    /\ UNCHANGED <<inputPage, outputPage, own, hcalls, ownInput, ownOutput,
                   range, prot, memA, memB, obsA, obsB>>
    /\ UNCHANGED exPage

\* Lines 227-231: one more batch; the header goes to the input page.
ApplyHeader ==
    /\ hpc[BSP] = "apply"
    /\ current_page < range.hi
    /\ inputPage' = [inputPage EXCEPT !.hdr = "ModifyVtlProtectionMask"]
    /\ own' = [own EXCEPT ![BSP] = HvPage("ModifyVtlProtectionMask", ZeroWord, {})]
    /\ HGoto(BSP, "ap_hdr")
    /\ UNCHANGED <<outputPage, hcalls, ownInput, ownOutput, range,
                   current_page, prot, memA, memB, obsA, obsB>>
    /\ UNCHANGED exPage

\* Lines 233-238: the page numbers of the batch go behind the header.
ApplyPages ==
    /\ hpc[BSP] = "ap_hdr"
    /\ LET count == BatchCount(current_page, range.hi)
           w0 == Word("gpn", current_page, "")
           rest == (current_page + 1)..(current_page + count - 1)
       IN  /\ inputPage' = [inputPage EXCEPT !.w0 = w0, !.rest = rest]
           /\ own' = [own EXCEPT ![BSP].w0 = w0, ![BSP].rest = rest]
    /\ HGoto(BSP, "ap_body")
    /\ UNCHANGED <<outputPage, hcalls, ownInput, ownOutput, range,
                   current_page, prot, memA, memB, obsA, obsB>>
    /\ UNCHANGED exPage

\* Lines 240-247: dispatch_hvcall, output.result()?, current_page += count.
\* An error reaches expect_assert in apply_vtl_protection_for_memory.
ApplyDispatch ==
    /\ hpc[BSP] = "ap_body"
    /\ ownInput' = [ownInput EXCEPT ![BSP] = @ /\ SameInput(inputPage, own[BSP])]
    /\ \E r \in HvModifyVtlProtectionMask(inputPage) :
           IF r.ok
           THEN /\ prot' = prot \cup r.pages
                /\ current_page' = current_page + BatchCount(current_page, range.hi)
                /\ HGoto(BSP, "apply")
           ELSE /\ HGoto(BSP, "panic")
                /\ UNCHANGED <<prot, current_page>>
    /\ UNCHANGED <<inputPage, outputPage, own, hcalls, ownOutput, range,
                   memA, memB, obsA, obsB>>
    /\ UNCHANGED exPage

\* Line 227 (loop exit) and 250: Ok(()).
ApplyDone ==
    /\ hpc[BSP] = "apply"
    /\ current_page >= range.hi
    /\ HGoto(BSP, "low")
    /\ UNCHANGED <<inputPage, outputPage, own, hcalls, ownInput, ownOutput,
                   range, current_page, prot, memA, memB, obsA, obsB>>
    /\ UNCHANGED exPage

\* ------------------------------------------------ low_vtl
\* Lines 292-296: Self::input_page().buffer.fill(0u8).  The BSP calls it at
\* line 83 of hv_misc.rs, an AP from its worker loop.
LowFill(v) ==
    /\ IF v = BSP THEN hpc[v] = "low" ELSE hpc[v] = "idle" /\ hcalls[v] < MaxHvCalls
    /\ inputPage' = ZeroPage
    /\ own' = [own EXCEPT ![v] = ZeroPage]
    /\ hcalls' = [hcalls EXCEPT ![v] = @ + 1]
    /\ HGoto(v, "lv_fill")
    /\ UNCHANGED <<outputPage, ownInput, ownOutput, range, current_page, prot,
                   memA, memB, obsA, obsB>>
    /\ UNCHANGED exPage

\* Lines 298-303: invoke_hypercall_high(control, input_page().address()).
LowDispatch(v) ==
    /\ hpc[v] = "lv_fill"
    /\ ownInput' = [ownInput EXCEPT ![v] = @ /\ SameInput(inputPage, own[v])]
    /\ HGoto(v, IF v = BSP THEN "vtl0" ELSE "idle")
    /\ UNCHANGED <<inputPage, outputPage, own, hcalls, ownOutput, range,
                   current_page, prot, memA, memB, obsA, obsB>>
    /\ UNCHANGED exPage

\* ------------------------------------------------ tests/hv_misc.rs, VTL0
\* Lines 96-107: val = *(heapx.add(10)), in the two runs.
MiscRead ==
    /\ hpc[BSP] = "vtl0"
    /\ obsA' = Vtl0Read(memA, range.lo)
    /\ obsB' = Vtl0Read(memB, range.lo)
    /\ HGoto(BSP, "done")
    /\ UNCHANGED <<inputPage, outputPage, own, hcalls, ownInput, ownOutput,
                   range, current_page, prot, memA, memB>>
    /\ UNCHANGED exPage

\* ------------------------------------------------ get_register
\* Lines 196-203: the header goes to the input page.
GetRegisterHeader(v) ==
    /\ hpc[v] = "idle" /\ hcalls[v] < MaxHvCalls
    /\ inputPage' = [inputPage EXCEPT !.hdr = "GetSetVpRegisters"]
    /\ own' = [own EXCEPT ![v] = HvPage("GetSetVpRegisters", ZeroWord, inputPage.rest)]
    /\ hcalls' = [hcalls EXCEPT ![v] = @ + 1]
    /\ HGoto(v, "gr_hdr")
    /\ UNCHANGED <<outputPage, ownInput, ownOutput, range, current_page, prot,
                   memA, memB, obsA, obsB>>
    /\ UNCHANGED exPage

\* Line 204: the register name goes behind the header.
GetRegisterName(v) ==
    /\ hpc[v] = "gr_hdr"
    /\ \E n \in RegNames :
           /\ inputPage' = [inputPage EXCEPT !.w0 = Word("reg", 0, n)]
           /\ own' = [own EXCEPT ![v].w0 = Word("reg", 0, n)]
    /\ HGoto(v, "gr_body")
    /\ UNCHANGED <<outputPage, hcalls, ownInput, ownOutput, range,
                   current_page, prot, memA, memB, obsA, obsB>>
    /\ UNCHANGED exPage

\* Lines 206-207: dispatch_hvcall, output.result()?.
GetRegisterDispatch(v) ==
    /\ hpc[v] = "gr_body"
    /\ ownInput' = [ownInput EXCEPT ![v] =
                       @ /\ inputPage.hdr = own[v].hdr /\ inputPage.w0 = own[v].w0]
    /\ LET r == HvGetVpRegisters(v, inputPage)
       IN  IF r.ok
           THEN outputPage' = r.value /\ HGoto(v, "gr_out")
           ELSE outputPage' = outputPage /\ HGoto(v, "idle")
    /\ UNCHANGED <<inputPage, own, hcalls, ownOutput, range, current_page,
                   prot, memA, memB, obsA, obsB>>
    /\ UNCHANGED exPage

\* Line 208: the value is read from the output page.
GetRegisterRead(v) ==
    /\ hpc[v] = "gr_out"
    /\ ownOutput' = [ownOutput EXCEPT ![v] =
                        @ /\ outputPage = RegValue(v, own[v].w0.reg)]
    /\ HGoto(v, "idle")
    /\ UNCHANGED <<inputPage, outputPage, own, hcalls, ownInput, range,
                   current_page, prot, memA, memB, obsA, obsB>>
    /\ UNCHANGED exPage

PageNext ==
    \/ MiscAlloc
    \/ MiscWrite
    \/ MiscSetupVtlProtection
    \/ ApplyBegin
    \/ ApplyHeader
    \/ ApplyPages
    \/ ApplyDispatch
    \/ ApplyDone
    \/ MiscRead
    \/ \E v \in VPs : LowFill(v)
    \/ \E v \in VPs : LowDispatch(v)
    \/ \E v \in APs : GetRegisterHeader(v)
    \/ \E v \in APs : GetRegisterName(v)
    \/ \E v \in APs : GetRegisterDispatch(v)
    \/ \E v \in APs : GetRegisterRead(v)

\* ====================================================== HvCall handle
\* One HvCall handle used by one caller; the hypervisor's answers are open.
HvErrors == {"InvalidParameter", "AccessDenied"}

CallRec(fn, vp, vtl, hv, ret) == [fn |-> fn, vp |-> vp, vtl |-> vtl, hv |-> hv, ret |-> ret]
NoCall == CallRec("none", 0, 0, "none", "none")

\* No VsmVpStatus read belongs to the call in `last`.
NoRead == [res |-> "none", active |-> Vtl0]

CallInit ==
    /\ initialized = FALSE
    /\ cpc = "idle"
    /\ ncalls = 0
    /\ last = NoCall
    /\ prev = NoCall
    /\ partVtl = {}
    /\ vpVtl = {}
    /\ vpStarted = {}
    /\ brange = [lo |-> 0, hi |-> 0]
    /\ bcur = 0
    /\ issued = <<>>
    /\ hwIds = <<>>
    /\ hwPos = 0
    /\ out = <<>>
    /\ out0 = <<>>
    /\ hvcall_vtl = Vtl0
    /\ vsm_read = NoRead

\* A call begins: the caller is between calls and has calls left.
CallBegins ==
    /\ cpc = "idle"
    /\ ncalls < MaxHandleCalls
    /\ ncalls' = ncalls + 1

\* The locals of the looping calls are gone once another call begins.
NoBatch ==
    /\ brange' = [lo |-> 0, hi |-> 0]
    /\ bcur' = 0

NoHwId ==
    /\ hwIds' = <<>>
    /\ hwPos' = 0
    /\ out' = <<>>
    /\ out0' = <<>>

NoLoop == NoBatch /\ NoHwId /\ issued' = <<>>

\* What a call finds in self.initialized.
Was == IF initialized THEN "initialized" ELSE "uninitialized"

\* A call completes with the record c.
Completes(c) ==
    /\ last' = c
    /\ prev' = last

\* Hypervisor: HvCallEnablePartitionVtl.
HvEnablePartitionVtl(vtl) ==
    IF vtl \in partVtl THEN {"VtlAlreadyEnabled"} ELSE {"Ok"} \cup HvErrors

\* Hypervisor: HvCallEnableVpVtl.
HvEnableVpVtl(vp, vtl) ==
    IF <<vp, vtl>> \in vpVtl THEN {"VtlAlreadyEnabled"} ELSE {"Ok"} \cup HvErrors

\* Hypervisor: HvCallStartVirtualProcessor.
HvStartVirtualProcessor(vp) ==
    IF vp = BSP \/ vp \in vpStarted THEN {"InvalidVpState"} ELSE {"Ok"} \cup HvErrors

\* Lines 362-365: the match on output.result() in enable_partition_vtl.
EnablePartitionVtlReturn(r) == IF r \in {"Ok", "VtlAlreadyEnabled"} THEN "Ok" ELSE r

\* start_virtual_processor handing the error to its caller.
StartVirtualProcessorReturnsErr(r) == r

\* Lines 339-342: the match on output.result() in start_virtual_processor.
StartVirtualProcessorReturn(r) == IF r = "Ok" THEN "Ok" ELSE "panic"

\* initialize with init_if_needed's test in place of the assertion.
InitializeTolerant(was) == "return"

\* Line 104: assert!(!self.initialized).
InitializeOutcome(was) == IF was THEN "panic" ELSE "return"

\* A get_register(VsmVpStatus): the VTL the caller is executing in, which
\* the register holds, and the result of the hypercall that reads it.
VsmReads ==
    {[res |-> r, active |-> t] : r \in {"Ok"} \cup HvErrors, t \in RunVtls}

\* Lines 111-118: .map_or(Vtl::Vtl0, |status| active_vtl of status).
VtlFromRead(read) == IF read.res = "Ok" THEN read.active ELSE Vtl0

\* Lines 103-119: initialize().
CallInitialize ==
    /\ CallBegins
    /\ IF InitializeOutcome(initialized) = "panic"
       THEN /\ Completes(CallRec("initialize", 0, 0, Was, "panic"))
            /\ cpc' = "panic"
            /\ vsm_read' = NoRead
            /\ UNCHANGED hvcall_vtl
       ELSE \E read \in VsmReads :
                /\ vsm_read' = read
                /\ hvcall_vtl' = VtlFromRead(read)
                /\ Completes(CallRec("initialize", 0, 0, Was, "return"))
                /\ cpc' = "idle"
    /\ initialized' = TRUE
    /\ UNCHANGED <<partVtl, vpVtl, vpStarted>>
    /\ NoLoop
    /\ UNCHANGED exCall

\* Lines 122-127: uninitialize().
CallUninitialize ==
    /\ CallBegins
    /\ Completes(CallRec("uninitialize", 0, 0, Was, "return"))
    /\ initialized' = FALSE
    /\ UNCHANGED <<cpc, partVtl, vpVtl, vpStarted>>
    /\ NoLoop
    /\ UNCHANGED hvcall_vtl /\ vsm_read' = NoRead
    /\ UNCHANGED exCall

\* Lines 345-366: enable_partition_vtl(partition_id, target_vtl).
CallEnablePartitionVtl ==
    /\ CallBegins
    /\ \E vtl \in {Vtl1, Vtl2} : \E r \in HvEnablePartitionVtl(vtl) :
           /\ partVtl' = IF r = "Ok" THEN partVtl \cup {vtl} ELSE partVtl
           /\ Completes(CallRec("enable_partition_vtl", 0, vtl, r,
                                EnablePartitionVtlReturn(r)))
    /\ initialized' = TRUE
    /\ UNCHANGED <<cpc, vpVtl, vpStarted>>
    /\ NoLoop
    /\ UNCHANGED hvcall_vtl /\ vsm_read' = NoRead
    /\ UNCHANGED exCall

\* Lines 307-323: enable_vp_vtl(vp_index, target_vtl, vp_context).
CallEnableVpVtl ==
    /\ CallBegins
    /\ \E vp \in VPs : \E vtl \in {Vtl1, Vtl2} : \E r \in HvEnableVpVtl(vp, vtl) :
           /\ vpVtl' = IF r = "Ok" THEN vpVtl \cup {<<vp, vtl>>} ELSE vpVtl
           /\ Completes(CallRec("enable_vp_vtl", vp, vtl, r, EnableVpVtlReturn(r)))
    /\ initialized' = TRUE
    /\ UNCHANGED <<cpc, partVtl, vpStarted>>
    /\ NoLoop
    /\ UNCHANGED hvcall_vtl /\ vsm_read' = NoRead
    /\ UNCHANGED exCall

\* Lines 326-343: start_virtual_processor(vp_index, target_vtl, vp_context).
CallStartVirtualProcessor ==
    /\ CallBegins
    /\ \E vp \in VPs : \E r \in HvStartVirtualProcessor(vp) :
           /\ vpStarted' = IF r = "Ok" THEN vpStarted \cup {vp} ELSE vpStarted
           /\ Completes(CallRec("start_virtual_processor", vp, Vtl1, r,
                                StartVirtualProcessorReturn(r)))
           /\ cpc' = IF StartVirtualProcessorReturn(r) = "panic" THEN "panic" ELSE "idle"
    /\ initialized' = TRUE
    /\ UNCHANGED <<partVtl, vpVtl>>
    /\ NoLoop
    /\ UNCHANGED hvcall_vtl /\ vsm_read' = NoRead
    /\ UNCHANGED exCall

\* ------------------------------------------------ batched range calls
BatchedFns == {"apply_vtl2_protections", "accept_vtl2_pages"}

\* One hypercall as dispatched: code, first page or position, the list
\* written behind the header, the rep count, the VTL the header names, the
\* hypervisor's result and the elements it processed.
Hypercall(code, first, list, rep, target, res, n) ==
    [code |-> code, first |-> first, list |-> list, rep |-> rep,
     target |-> target, res |-> res, n |-> n]

\* A loop that goes on after a failed batch.
BatchNeverAborts(res) == FALSE

\* Lines 245 and 426: output.result()?.
BatchAborts(res) == res # "Ok"

\* Lines 234-238: the page numbers apply_vtl2_protections writes; the header
\* of accept_vtl2_pages carries gpa_page_base and no list follows it.
BatchList(fn, cp, count) ==
    IF fn = "apply_vtl2_protections" THEN [i \in 1..count |-> cp + i - 1] ELSE <<>>

BatchCode(fn) ==
    IF fn = "apply_vtl2_protections"
    THEN "HvCallModifyVtlProtectionMask" ELSE "HvCallAcceptGpaPages"

BatchTarget(fn) == IF fn = "apply_vtl2_protections" THEN "current" ELSE "vtl2"

\* Lines 226 and 401: current_page = range.start_4k_gpn().
CallBatchedBegin ==
    /\ CallBegins
    /\ \E fn \in BatchedFns : \E lo \in 0..NumPages : \E hi \in lo..NumPages :
           /\ brange' = [lo |-> lo, hi |-> hi]
           /\ bcur' = lo
           /\ cpc' = fn
    /\ issued' = <<>>
    /\ NoHwId
    /\ UNCHANGED <<initialized, last, prev, partVtl, vpVtl, vpStarted>>
    /\ UNCHANGED hvcall_vtl /\ vsm_read' = NoRead
    /\ UNCHANGED exCall

\* Lines 227-247 and 402-428: one batch.
CallBatch ==
    /\ cpc \in BatchedFns
    /\ bcur < brange.hi
    /\ LET count == BatchCount(bcur, brange.hi)
       IN  \E r \in {"Ok"} \cup HvErrors :
               /\ issued' = Append(issued,
                      Hypercall(BatchCode(cpc), bcur, BatchList(cpc, bcur, count),
                                count, BatchTarget(cpc), r, IF r = "Ok" THEN count ELSE 0))
               /\ IF BatchAborts(r)
                  THEN /\ Completes(CallRec(cpc, 0, 0, r, r))
                       /\ cpc' = "idle"
                       /\ UNCHANGED bcur
                  ELSE /\ bcur' = bcur + count
                       /\ UNCHANGED <<last, prev, cpc>>
    /\ initialized' = TRUE
    /\ UNCHANGED <<ncalls, partVtl, vpVtl, vpStarted, brange, hwIds, hwPos, out, out0>>
    /\ UNCHANGED hvcall_vtl /\ vsm_read' = NoRead
    /\ UNCHANGED exCall

\* Lines 227/250 and 402/430: the loop ends, Ok(()).
CallBatchedEnd ==
    /\ cpc \in BatchedFns
    /\ bcur >= brange.hi
    /\ Completes(CallRec(cpc, 0, 0, "none", "Ok"))
    /\ cpc' = "idle"
    /\ UNCHANGED <<initialized, ncalls, partVtl, vpVtl, vpStarted, brange, bcur,
                   issued, hwIds, hwPos, out, out0>>
    /\ UNCHANGED hvcall_vtl /\ vsm_read' = NoRead
    /\ UNCHANGED exCall

\* ------------------------------------------------ get_vp_index_from_hw_id
HwIdValues == {10, 11}

\* Hypervisor: the VP index of a hardware id.
VpIndexOf(id) == id - 10

\* Capacity N of the caller's ArrayVec<u32, N>.
OutCap == MaxHwIds + 1

HwIdSeqs == UNION {[1..n -> HwIdValues] : n \in 0..MaxHwIds}

\* A chunk as long as what is left of the slice.
ChunkLenUnbounded(remaining) == remaining

\* Lines 452-454: hw_ids.chunks(MAX_PER_CALL).
ChunkLen(remaining) == IF remaining < MaxPerCall THEN remaining ELSE MaxPerCall

\* Lines 439-451: the call begins; the caller's ArrayVec may hold an entry.
CallHwIdBegin ==
    /\ CallBegins
    /\ \E ids \in HwIdSeqs : hwIds' = ids
    /\ \E o \in {<<>>, <<VpIndexOf(10)>>} : out' = o /\ out0' = o
    /\ hwPos' = 0
    /\ issued' = <<>>
    /\ cpc' = "get_vp_index_from_hw_id"
    /\ NoBatch
    /\ UNCHANGED <<initialized, last, prev, partVtl, vpVtl, vpStarted>>
    /\ UNCHANGED hvcall_vtl /\ vsm_read' = NoRead
    /\ UNCHANGED exCall

\* Lines 454-474: one chunk.  output.extend panics beyond the capacity;
\* r.result()? returns the error; assert_eq!(n, hw_ids.len()).
CallHwIdChunk ==
    /\ cpc = "get_vp_index_from_hw_id"
    /\ hwPos < Len(hwIds)
    /\ LET len == ChunkLen(Len(hwIds) - hwPos)
           chunk == SubSeq(hwIds, hwPos + 1, hwPos + len)
       IN  \E r \in {"Ok"} \cup HvErrors : \E n \in 0..len :
               LET ext == out \o [i \in 1..n |-> VpIndexOf(chunk[i])]
               IN  /\ issued' = Append(issued,
                          Hypercall("HvCallGetVpIndexFromApicId", hwPos, chunk, len,
                                    "vtl0", r, n))
                   /\ IF Len(ext) > OutCap
                      THEN /\ Completes(CallRec(cpc, 0, 0, r, "panic"))
                           /\ cpc' = "panic"
                           /\ UNCHANGED <<out, hwPos>>
                      ELSE IF r # "Ok"
                      THEN /\ Completes(CallRec(cpc, 0, 0, r, r))
                           /\ cpc' = "idle"
                           /\ out' = ext
                           /\ UNCHANGED hwPos
                      ELSE IF n # len
                      THEN /\ Completes(CallRec(cpc, 0, 0, r, "panic"))
                           /\ cpc' = "panic"
                           /\ out' = ext
                           /\ UNCHANGED hwPos
                      ELSE /\ out' = ext
                           /\ hwPos' = hwPos + len
                           /\ UNCHANGED <<last, prev, cpc>>
    /\ initialized' = TRUE
    /\ UNCHANGED <<ncalls, partVtl, vpVtl, vpStarted, brange, bcur, hwIds, out0>>
    /\ UNCHANGED hvcall_vtl /\ vsm_read' = NoRead
    /\ UNCHANGED exCall

\* Lines 452 and 476: the chunks are exhausted, Ok(()).
CallHwIdEnd ==
    /\ cpc = "get_vp_index_from_hw_id"
    /\ hwPos >= Len(hwIds)
    /\ Completes(CallRec(cpc, 0, 0, "none", "Ok"))
    /\ cpc' = "idle"
    /\ UNCHANGED <<initialized, ncalls, partVtl, vpVtl, vpStarted, brange, bcur,
                   issued, hwIds, hwPos, out, out0>>
    /\ UNCHANGED hvcall_vtl /\ vsm_read' = NoRead
    /\ UNCHANGED exCall

CallNext ==
    \/ CallInitialize
    \/ CallUninitialize
    \/ CallEnablePartitionVtl
    \/ CallEnableVpVtl
    \/ CallStartVirtualProcessor
    \/ CallBatchedBegin
    \/ CallBatch
    \/ CallBatchedEnd
    \/ CallHwIdBegin
    \/ CallHwIdChunk
    \/ CallHwIdEnd

\* ====================================================== allocator
AllocOps == {"alloc", "dealloc", "alloc_zeroed", "realloc"}

\* One call on ALLOCATOR: the operation, the allocator it was handed to
\* ("none" for init), init's return value, and the allocator that had
\* handed out the pointer given to dealloc or realloc ("none" otherwise).
AllocCall(op, dest, ret, owner) ==
    [op |-> op, dest |-> dest, ret |-> ret, owner |-> owner]

\* A block: the call that returned it and the allocator it came from.
Block(id, owner) == [id |-> id, owner |-> owner]

AllocInit ==
    /\ use_locked_heap = FALSE
    /\ alog = <<>>
    /\ blocks = {}

\* Lines 27-31 (and 35, 43, 51): the test of use_locked_heap.
Route(flag) == IF flag THEN "locked_heap" ELSE "uefi_allocator"

\* An init that stores its success or failure in the flag.
FlagStoresResult(flag, ok) == ok

\* Lines 66-75: the flag is set after allocate_pages succeeded, else kept.
FlagAfterInit(flag, ok) == IF ok THEN TRUE ELSE flag

\* Lines 26-56: alloc and alloc_zeroed return a block of the allocator the
\* flag selects; dealloc and realloc hand a block the program holds to the
\* allocator the flag selects now, and realloc returns a block of that one.
AllocRouted ==
    /\ Len(alog) < MaxAllocCalls
    /\ LET dest == Route(use_locked_heap)
           new == Block(Len(alog) + 1, dest)
       IN  \/ \E op \in {"alloc", "alloc_zeroed"} :
                /\ alog' = Append(alog, AllocCall(op, dest, TRUE, "none"))
                /\ blocks' = blocks \cup {new}
           \/ \E b \in blocks :
                \/ /\ alog' = Append(alog, AllocCall("dealloc", dest, TRUE, b.owner))
                   /\ blocks' = blocks \ {b}
                \/ /\ alog' = Append(alog, AllocCall("realloc", dest, TRUE, b.owner))
                   /\ blocks' = (blocks \ {b}) \cup {new}
    /\ UNCHANGED use_locked_heap
    /\ UNCHANGED exAlloc

\* Lines 62-76: init(size); boot::allocate_pages succeeds or fails.
AllocatorInit ==
    /\ Len(alog) < MaxAllocCalls
    /\ \E ok \in BOOLEAN :
           /\ use_locked_heap' = FlagAfterInit(use_locked_heap, ok)
           /\ alog' = Append(alog, AllocCall("init", "none", ok, "none"))
    /\ UNCHANGED blocks
    /\ UNCHANGED exAlloc

AllocNext ==
    \/ AllocRouted
    \/ AllocatorInit

\* ====================================================== logging
\* The two serial writers: the static SERIAL of slog.rs and the writter of
\* the static LOGGER of tmk_logger.rs.
Ports == {"SERIAL", "LOGGER"}

NoVp == NumVP

MacroLevels == {"DEBUG", "INFO", "ERROR"}

\* serde_json's rendering of a bool.
JsonBool(b) == IF b THEN "true" ELSE "false"

\* A JSON object is a function from its keys to its values; the message and
\* the file:line text are the same for every record.
Message == "message text"

FileLine == "file:line"

\* slog.rs lines 15-32: json!({"type:": "log", "message": s, "level": ..}).
GetJsonString(level) ==
    ("type:" :> "log") @@ [message |-> Message, level |-> level]

\* An assertion record that always reports success.
GetJsonTestAssertionStringPassing(assert_result) ==
    ("type:" :> "assertion") @@
        [message |-> Message, level |-> "CRITICAL", line |-> FileLine,
         assertion_result |-> "true"]

\* slog.rs lines 34-52: json!({"type:": "assertion", "message": s,
\* "level": "CRITICAL", "line": line, "assertion_result": assert_result}).
GetJsonTestAssertionString(assert_result) ==
    ("type:" :> "assertion") @@
        [message |-> Message, level |-> "CRITICAL", line |-> FileLine,
         assertion_result |-> JsonBool(assert_result)]

\* tmk_logger.rs lines 17-50: LogEntry serialized with log_type renamed to
\* "type".
FormatLogStringToJson(level) ==
    [type |-> "log", level |-> level, message |-> Message, line |-> FileLine]

LogInit ==
    /\ port = [p \in Ports |-> <<>>]
    /\ lock = NoVp
    /\ lpc = [v \in VPs |-> "idle"]
    /\ job = [v \in VPs |-> [n |-> 0, pos |-> 0]]
    /\ written = [v \in VPs |-> <<>>]
    /\ asserted = [v \in VPs |-> <<>>]

\* VP v is between statements and has records left to emit.
LogBegins(v) ==
    /\ lpc[v] = "idle"
    /\ Len(written[v]) < MaxLogCalls

\* VP v hands the record r to write_str.
Hands(v, r) ==
    /\ written' = [written EXCEPT ![v] = Append(@, r)]
    /\ job' = [job EXCEPT ![v] = [n |-> Len(written[v]) + 1, pos |-> 0]]

\* One byte of VP v's record reaches port p; after the last byte write_str
\* returns.
WriteByte(v, p) ==
    /\ port' = [port EXCEPT ![p] = Append(@, <<v, job[v].n, job[v].pos + 1>>)]
    /\ job' = [job EXCEPT ![v].pos = @ + 1]

LastByte(v) == job[v].pos + 1 = RecordLen

\* slog.rs lines 68-143: debuglog!, infolog!, errorlog! up to write_str.
MacroLog(v) ==
    /\ LogBegins(v)
    /\ \E level \in MacroLevels : Hands(v, GetJsonString(level))
    /\ lpc' = [lpc EXCEPT ![v] = "serial"]
    /\ UNCHANGED <<port, lock, asserted>>
    /\ UNCHANGED exLog

\* slog.rs lines 56-67: tmk_assert!(cond) up to write_str.
TmkAssert(v) ==
    /\ LogBegins(v)
    /\ \E cond \in BOOLEAN :
           /\ asserted' = [asserted EXCEPT ![v] = Append(@, cond)]
           /\ Hands(v, GetJsonTestAssertionString(cond))
    /\ lpc' = [lpc EXCEPT ![v] = "serial"]
    /\ UNCHANGED <<port, lock>>
    /\ UNCHANGED exLog

\* unsafe { SERIAL.write_str(&js) }: the static mut is written with no lock.
SerialWriteByte(v) ==
    /\ lpc[v] = "serial"
    /\ WriteByte(v, "SERIAL")
    /\ lpc' = [lpc EXCEPT ![v] = IF LastByte(v) THEN "idle" ELSE "serial"]
    /\ UNCHANGED <<lock, written, asserted>>
    /\ UNCHANGED exLog

\* tmk_logger.rs lines 82-89: TmkLogger::log formats the record.
LoggerLog(v) ==
    /\ LogBegins(v)
    /\ \E level \in MacroLevels : Hands(v, FormatLogStringToJson(level))
    /\ lpc' = [lpc EXCEPT ![v] = "lock"]
    /\ UNCHANGED <<port, lock, asserted>>
    /\ UNCHANGED exLog

\* tmk_logger.rs line 90: self.writter.lock() spins until the mutex is free.
LoggerLock(v) ==
    /\ lpc[v] = "lock"
    /\ lock = NoVp
    /\ lock' = v
    /\ lpc' = [lpc EXCEPT ![v] = "logger"]
    /\ UNCHANGED <<port, job, written, asserted>>
    /\ UNCHANGED exLog

\* tmk_logger.rs line 90: write_str under the guard, dropped at the end.
LoggerWriteByte(v) ==
    /\ lpc[v] = "logger"
    /\ WriteByte(v, "LOGGER")
    /\ lpc' = [lpc EXCEPT ![v] = IF LastByte(v) THEN "idle" ELSE "logger"]
    /\ lock' = IF LastByte(v) THEN NoVp ELSE lock
    /\ UNCHANGED <<written, asserted>>
    /\ UNCHANGED exLog

LogNext ==
    \/ \E v \in VPs : MacroLog(v)
    \/ \E v \in VPs : TmkAssert(v)
    \/ \E v \in VPs : SerialWriteByte(v)
    \/ \E v \in VPs : LoggerLog(v)
    \/ \E v \in VPs : LoggerLock(v)
    \/ \E v \in VPs : LoggerWriteByte(v)

\* ====================================================== Channel
Threads == 1..NumThreads

NoThread == 0

ChanOps == {"send", "send_priority", "recv"}

\* A call on a Sender or Receiver clone; recv carries no item.
ChanCall(op, item) == [op |-> op, item |-> item]

\* What a returned call leaves in the history: the buffer it found under
\* the lock and what it returned.
ChanEvent(c, found, ret) ==
    [op |-> c.op, item |-> c.item, found |-> found, ret |-> ret]

\* Channel::new(capacity): an empty Deque behind a free Mutex.
ChanInit ==
    /\ buffer = <<>>
    /\ mutex = NoThread
    /\ tpc = [t \in Threads |-> "idle"]
    /\ top = [t \in Threads |-> ChanCall("recv", 0)]
    /\ nchan = 0
    /\ clog = <<>>

\* A push_front that puts the value behind the others.
DequePushFrontLast(data, value) == Append(data, value)

\* Deque::push_front: self.data.insert(0, value).
DequePushFront(data, value) == <<value>> \o data

\* Deque::push_back: self.data.push(value).
DequePushBack(data, value) == Append(data, value)

\* Deque::pop_front: None when empty, else Some(self.data.remove(0)).
DequePopFront(data) ==
    IF data = <<>> THEN [some |-> FALSE, item |-> 0, rest |-> data]
    ELSE [some |-> TRUE, item |-> Head(data), rest |-> Tail(data)]

\* Thread t calls send(item), send_priority(item) or recv() on its clone.
ChanCalls(t) ==
    /\ tpc[t] = "idle"
    /\ nchan < MaxChanCalls
    /\ \E op \in ChanOps :
           top' = [top EXCEPT ![t] =
                      ChanCall(op, IF op = "recv" THEN 0 ELSE nchan + 1)]
    /\ nchan' = nchan + 1
    /\ tpc' = [tpc EXCEPT ![t] = "lock"]
    /\ UNCHANGED <<buffer, mutex, clog>>
    /\ UNCHANGED exChan

\* An exchange that succeeds whatever the flag holds.
CompareExchangeBlind(flag, current) == TRUE

\* AtomicBool::compare_exchange(current, new): Ok when the flag holds current.
CompareExchange(flag, current) == flag = current

\* Mutex::lock: leaves the spin loop when compare_exchange(false, true) is Ok.
MutexLock(t) ==
    /\ tpc[t] = "lock"
    /\ CompareExchange(mutex, NoThread)
    /\ mutex' = t
    /\ tpc' = [tpc EXCEPT ![t] = "locked"]
    /\ UNCHANGED <<buffer, top, nchan, clog>>
    /\ UNCHANGED exChan

\* Thread t returns ret from its call; the guard is dropped.
ChanReturns(t, ret) ==
    /\ clog' = Append(clog, ChanEvent(top[t], buffer, ret))
    /\ mutex' = NoThread
    /\ tpc' = [tpc EXCEPT ![t] = "idle"]

\* Channel::send under the lock: Err when len >= capacity, else push_back.
ChanSend(t) ==
    /\ tpc[t] = "locked" /\ top[t].op = "send"
    /\ IF Len(buffer) >= Capacity
       THEN buffer' = buffer /\ ChanReturns(t, "Err")
       ELSE buffer' = DequePushBack(buffer, top[t].item) /\ ChanReturns(t, "Ok")
    /\ UNCHANGED <<top, nchan>>
    /\ UNCHANGED exChan

\* Channel::send_priority under the lock: push_front, Ok.
ChanSendPriority(t) ==
    /\ tpc[t] = "locked" /\ top[t].op = "send_priority"
    /\ buffer' = DequePushFront(buffer, top[t].item)
    /\ ChanReturns(t, "Ok")
    /\ UNCHANGED <<top, nchan>>
    /\ UNCHANGED exChan

\* Channel::recv under the lock: return the popped item, or drop the guard
\* and go round the loop.
ChanRecv(t) ==
    /\ tpc[t] = "locked" /\ top[t].op = "recv"
    /\ LET r == DequePopFront(buffer)
       IN  IF r.some
           THEN buffer' = r.rest /\ ChanReturns(t, r.item)
           ELSE /\ mutex' = NoThread
                /\ tpc' = [tpc EXCEPT ![t] = "lock"]
                /\ UNCHANGED <<buffer, clog>>
    /\ UNCHANGED <<top, nchan>>
    /\ UNCHANGED exChan

ChanNext ==
    \/ \E t \in Threads : ChanCalls(t)
    \/ \E t \in Threads : MutexLock(t)
    \/ \E t \in Threads : ChanSend(t)
    \/ \E t \in Threads : ChanSendPriority(t)
    \/ \E t \in Threads : ChanRecv(t)

\* ====================================================== panic handler
PanicInit ==
    /\ ppc = [v \in VPs |-> "run"]
    /\ depth = [v \in VPs |-> 0]
    /\ table = [v \in VPs |-> "unread"]
    /\ plog = [v \in VPs |-> <<>>]

\* VP v has done ev in its handler.
Did(v, ev) == plog' = [plog EXCEPT ![v] = Append(@, ev)]

\* Code running on VP v panics: panic_handler is entered.
Panics(v) ==
    /\ ppc[v] = "run"
    /\ depth[v] < MaxPanics
    /\ depth' = [depth EXCEPT ![v] = @ + 1]
    /\ ppc' = [ppc EXCEPT ![v] = "entered"]
    /\ Did(v, "panic")
    /\ UNCHANGED table
    /\ UNCHANGED exPanic

\* Line 20: errorlog!("Panic at runtime: {}", panic).
PanicLog(v) ==
    /\ ppc[v] = "entered"
    /\ ppc' = [ppc EXCEPT ![v] = "logged"]
    /\ Did(v, "errorlog")
    /\ UNCHANGED <<depth, table>>
    /\ UNCHANGED exPanic

\* Line 22: if uefi::table::system_table_raw().is_none().
ResetWhen(available) == ~available

\* Lines 22-25: the test of the system table.
PanicCheckTable(v) ==
    /\ ppc[v] = "logged"
    /\ \E available \in BOOLEAN :
           /\ table' = [table EXCEPT ![v] = IF available THEN "some" ELSE "none"]
           /\ ppc' = [ppc EXCEPT ![v] =
                         IF ResetWhen(available) THEN "reset" ELSE "fallback"]
    /\ UNCHANGED <<depth, plog>>
    /\ UNCHANGED exPanic

\* Line 24: uefi::runtime::reset(SHUTDOWN, ABORTED, None) does not return:
\* with the system table it powers the machine off, without one its lookup
\* of the runtime services panics, and the handler is entered again unless
\* the nested panic stops the VP.
PanicReset(v) ==
    /\ ppc[v] = "reset"
    /\ Did(v, "reset_system")
    /\ IF table[v] = "some"
       THEN /\ ppc' = [u \in VPs |-> "off"]
            /\ UNCHANGED depth
       ELSE IF depth[v] < MaxPanics
       THEN /\ ppc' = [ppc EXCEPT ![v] = "entered"]
            /\ depth' = [depth EXCEPT ![v] = @ + 1]
       ELSE /\ ppc' = [ppc EXCEPT ![v] = "stopped"]
            /\ UNCHANGED depth
    /\ UNCHANGED table
    /\ UNCHANGED exPanic

\* Line 27: errorlog!("Could not shut down... falling back ..").
PanicFallbackLog(v) ==
    /\ ppc[v] = "fallback"
    /\ ppc' = [ppc EXCEPT ![v] = "trap"]
    /\ Did(v, "errorlog")
    /\ UNCHANGED <<depth, table>>
    /\ UNCHANGED exPanic

\* Lines 30-36: ud2 / brk #0; the trap handler does not return.
PanicTrap(v) ==
    /\ ppc[v] = "trap"
    /\ ppc' = [ppc EXCEPT ![v] = "trapped"]
    /\ Did(v, "trap")
    /\ UNCHANGED <<depth, table>>
    /\ UNCHANGED exPanic

PanicNext ==
    \/ \E v \in VPs : Panics(v)
    \/ \E v \in VPs : PanicLog(v)
    \/ \E v \in VPs : PanicCheckTable(v)
    \/ \E v \in VPs : PanicReset(v)
    \/ \E v \in VPs : PanicFallbackLog(v)
    \/ \E v \in VPs : PanicTrap(v)

\* ====================================================== guest-OS identity
\* The HvTestCtx values of the partition: the test's context, those of the
\* worker loops, those an interrupt handler creates.
Ctxs == 1..NumCtx

OsIdInit ==
    /\ handles = [h \in Ctxs |-> "none"]
    /\ guest_os_id = FALSE
    /\ olog = <<>>

\* Context h takes a step.
CtxSteps(h, what) ==
    /\ Len(olog) < MaxCtxSteps
    /\ olog' = Append(olog, [ctx |-> h, what |-> what, os_id |-> guest_os_id])

\* arch::hypercall::initialize(guest_os_id): the identity is registered.
ArchInitialize(registered) == TRUE

\* arch::hypercall::uninitialize(): the identity is cleared.
ArchUninitialize(registered) == FALSE

\* HvTestCtx::new(): a handle with initialized = false.
CtxNew(h) ==
    /\ handles[h] = "none"
    /\ CtxSteps(h, "new")
    /\ handles' = [handles EXCEPT ![h] = "uninitialized"]
    /\ UNCHANGED guest_os_id
    /\ UNCHANGED exOsId

\* HvTestCtx::init(): self.hvcall.initialize() on the new handle.
CtxInit(h) ==
    /\ handles[h] = "uninitialized"
    /\ CtxSteps(h, "init")
    /\ guest_os_id' = ArchInitialize(guest_os_id)
    /\ handles' = [handles EXCEPT ![h] = "initialized"]
    /\ UNCHANGED exOsId

\* A hypercall through the handle of an initialized context.
CtxHypercall(h) ==
    /\ handles[h] = "initialized"
    /\ CtxSteps(h, "hypercall")
    /\ UNCHANGED <<handles, guest_os_id>>
    /\ UNCHANGED exOsId

\* impl Drop for HvTestCtx: self.hvcall.uninitialize(), which clears the
\* identity when the handle is initialized.
CtxDrop(h) ==
    /\ handles[h] # "none"
    /\ CtxSteps(h, "drop")
    /\ guest_os_id' = IF handles[h] = "initialized"
                      THEN ArchUninitialize(guest_os_id) ELSE guest_os_id
    /\ handles' = [handles EXCEPT ![h] = "none"]
    /\ UNCHANGED exOsId

OsIdNext ==
    \/ \E h \in Ctxs : CtxNew(h)
    \/ \E h \in Ctxs : CtxInit(h)
    \/ \E h \in Ctxs : CtxHypercall(h)
    \/ \E h \in Ctxs : CtxDrop(h)

\* =================================================== interrupt descriptors
\* Unsigned integers are their bits, least significant first.
Zeros(n) == [i \in 1..n |-> 0]

BitsOf(n, set) == [i \in 1..n |-> IF (i - 1) \in set THEN 1 ELSE 0]

\* x >> n
ShiftRight(x, n) == SubSeq(x, n + 1, Len(x)) \o Zeros(n)

\* x & m
BitAnd(x, m) == [i \in 1..Len(x) |-> IF x[i] = 1 /\ m[i] = 1 THEN 1 ELSE 0]

\* x | m
BitOr(x, m) == [i \in 1..Len(x) |-> IF x[i] = 1 \/ m[i] = 1 THEN 1 ELSE 0]

\* x as u<n>
Truncate(x, n) == SubSeq(x, 1, n)

\* 0b1111111111111111 as a u64, 0b1110 as a u8.
Mask16 == BitsOf(64, 0..15)
GateType == BitsOf(8, {1, 2, 3})

\* The vectors a handler is installed for.
Vectors == {48, 49}

\* InterruptDescriptor64. The type_attr values: an empty entry, a present
\* interrupt gate, a present trap gate, a present interrupt gate of ring 3.
TypeAttrs ==
    {Zeros(8), BitsOf(8, {1, 2, 3, 7}), BitsOf(8, {0, 1, 2, 3, 7}),
     BitsOf(8, {1, 2, 3, 5, 6, 7})}

Descriptors ==
    [offset_low : {Zeros(16)}, selector : {8, 56}, ist : {0, 1},
     type_attr : TypeAttrs, offset_mid : {Zeros(16)},
     offset_high : {Zeros(32)}, reserved : {0}]

\* The addresses interrupt_handler may be linked at.
Handlers ==
    {BitsOf(64, {12, 20, 21}), BitsOf(64, {4, 15, 16, 31, 32, 47}),
     BitsOf(64, (47..63) \cup {3, 17, 33})}

IdtInit ==
    /\ idt = [x \in Vectors |->
                 [offset_low |-> Zeros(16), selector |-> 0, ist |-> 0,
                  type_attr |-> Zeros(8), offset_mid |-> Zeros(16),
                  offset_high |-> Zeros(32), reserved |-> 0]]
    /\ idtr_read = FALSE
    /\ intr_enabled = FALSE
    /\ ilog = <<>>

\* read_idtr: pointers to the descriptors the firmware left in memory.
ReadIdtr ==
    /\ ~idtr_read
    /\ idtr_read' = TRUE
    /\ idt' \in [Vectors -> Descriptors]
    /\ UNCHANGED <<intr_enabled, ilog>>
    /\ UNCHANGED exIdt

\* The descriptor after set_int_handler has written it.
SetHandler(entry, handler) ==
    [entry EXCEPT
        !.offset_high = Truncate(ShiftRight(handler, 32), 32),
        !.offset_mid = Truncate(BitAnd(ShiftRight(handler, 16), Mask16), 16),
        !.offset_low = Truncate(BitAnd(handler, Mask16), 16),
        !.type_attr = BitOr(@, GateType)]

\* set_int_handler(idt, interrupt_idx), then sti.
SetIntHandler(interrupt_idx, handler) ==
    /\ idtr_read
    /\ Len(ilog) < MaxIdtCalls
    /\ idt' = [idt EXCEPT ![interrupt_idx] = SetHandler(@, handler)]
    /\ intr_enabled' = TRUE
    /\ ilog' = Append(ilog, [idx |-> interrupt_idx, handler |-> handler,
                             before |-> idt[interrupt_idx],
                             after |-> SetHandler(idt[interrupt_idx], handler)])
    /\ UNCHANGED idtr_read
    /\ UNCHANGED exIdt

IdtNext ==
    \/ ReadIdtr
    \/ \E x \in Vectors, h \in Handlers : SetIntHandler(x, h)

\* ========================================================== context stacks
\* The heap in half-MiB slots; address 0 is the null pointer.
SlotBase(k) == k * (SIZE_1MB \div 2)
SlotBases == {SlotBase(k) : k \in 1..HeapSlots}
HeapEnd == SlotBase(HeapSlots + 1)

HeapBlock(base, size, is_stack) ==
    [base |-> base, size |-> size, is_stack |-> is_stack]

\* GlobalAlloc::alloc may return base for size bytes: inside the heap and
\* apart from every live block.
Fits(blocks_live, base, size) ==
    /\ base + size <= HeapEnd
    /\ \A b \in blocks_live : b.base + b.size <= base \/ base + size <= b.base

\* What get_current_vtl_vp_context may read.
Snapshots ==
    [rip : {4096, 8192}, rsp : {65536}, rflags : {514},
     cr0 : {17}, cr3 : {12288, 16384}, cr4 : {32}, efer : {1280}]

\* The addresses of the entry functions.
EntryFns == {20480, 24576}

NoContext == [rip |-> 0]

StackInit ==
    /\ live = {}
    /\ nother = 0
    /\ rlog = <<>>

\* A stack that is handed back when the function returns.
StackReleased(blocks_live, block) == blocks_live

\* The stack block stays allocated: x is never passed to dealloc.
StackKept(blocks_live, block) == blocks_live \cup {block}

\* run_fn_with_current_context(func): snapshot, allocate, patch rip and rsp.
RunFnWithCurrentContext(snapshot, func, x) ==
    /\ Len(rlog) < MaxRunFnCalls
    /\ x = 0 \/ Fits(live, x, SIZE_1MB)
    /\ IF x = 0
       THEN /\ rlog' = Append(rlog, [snapshot |-> snapshot, func |-> func,
                                     x |-> x, before |-> live, ret |-> "Err",
                                     context |-> NoContext])
            /\ live' = live
       ELSE /\ rlog' = Append(rlog, [snapshot |-> snapshot, func |-> func,
                                     x |-> x, before |-> live, ret |-> "Ok",
                                     context |-> [snapshot EXCEPT
                                                    !.rip = func,
                                                    !.rsp = x + SIZE_1MB]])
            /\ live' = StackKept(live, HeapBlock(x, SIZE_1MB, TRUE))
    /\ UNCHANGED nother
    /\ UNCHANGED exStack

\* Other code allocates half a MiB.
OtherAlloc(x) ==
    /\ nother < MaxOtherAllocs
    /\ Fits(live, x, SIZE_1MB \div 2)
    /\ live' = live \cup {HeapBlock(x, SIZE_1MB \div 2, FALSE)}
    /\ nother' = nother + 1
    /\ UNCHANGED rlog
    /\ UNCHANGED exStack

\* Other code frees a block it allocated.
OtherDealloc(b) ==
    /\ ~b.is_stack
    /\ live' = live \ {b}
    /\ UNCHANGED <<nother, rlog>>
    /\ UNCHANGED exStack

StackNext ==
    \/ \E s \in Snapshots, f \in EntryFns, x \in {0} \cup SlotBases :
           RunFnWithCurrentContext(s, f, x)
    \/ \E x \in SlotBases : OtherAlloc(x)
    \/ \E b \in live : OtherDealloc(b)

\* ===================================================== command-table lock
MCtxs == VPs \X RunVtls
MainCtx == <<BSP, Vtl0>>

NoQueue == [some |-> FALSE, list |-> <<>>]
Queue(list) == [some |-> TRUE, list |-> list]

\* The locals of one iteration of the worker loop.
NoLocals == [cmd |-> "", vtl |-> Vtl2]

\* What a queued closure does: nothing but log, switch to the low VTL, or
\* push a command for its VP and switch to the low VTL.
CmdKinds == {"log", "low", "push"}

CmdInit ==
    /\ cmd_table = [v \in VPs |-> NoQueue]
    /\ cmd_guard = {}
    /\ mcur = [v \in VPs |-> IF v = BSP THEN Vtl0 ELSE Vtl1]
    /\ mpc = [c \in MCtxs |-> IF c = MainCtx THEN "reg_lock" ELSE "off"]
    /\ mi = [c \in MCtxs |-> 0]
    /\ mloc = [c \in MCtxs |-> NoLocals]
    /\ npush = 0
    /\ mlog = {}

\* Context c is the one its VP executes.
Runs(c) == mcur[c[1]] = c[2]

MGoto(c, at) == mpc' = [mpc EXCEPT ![c] = at]

\* spin::Mutex::lock: the spin loop ends when no guard exists.
CmdLock(c) ==
    /\ cmd_guard = {}
    /\ cmd_guard' = {c}


\* The guard goes out of scope: the lock is released.
GuardDropped(guards, c) == guards \ {c}

\* A guard that lives on after the end of the block.
BlockEndsLate(guards, c) == guards

\* exec_handler, line 355: the block of d ends before the switch and the call.
BlockEnds(guards, c) == GuardDropped(guards, c)

\* The next index of init's loop, or the code after init.
AfterRegister(c) ==
    IF mi[c] + 1 < NumVP
    THEN mi' = [mi EXCEPT ![c] = @ + 1] /\ MGoto(c, "reg_lock")
    ELSE mi' = [mi EXCEPT ![c] = 0]
         /\ MGoto(c, IF c = MainCtx THEN "test" ELSE "loop")

\* register_command_queue inserts whatever the table holds.
RegisterAlways(tbl, vp_index) == TRUE

\* register_command_queue: CMD.lock().get(&vp_index).is_none().
RegisterNeeded(tbl, vp_index) == ~tbl[vp_index].some

\* register_command_queue(mi[c]): the lock of the if condition is taken.
RegCheckLock(c) ==
    /\ Runs(c) /\ mpc[c] = "reg_lock"
    /\ CmdLock(c)
    /\ MGoto(c, "reg_get")
    /\ UNCHANGED <<cmd_table, mcur, mi, mloc, npush, mlog>>
    /\ UNCHANGED exCmd

\* The condition is evaluated and its guard dropped.
RegCheck(c) ==
    /\ Runs(c) /\ mpc[c] = "reg_get"
    /\ cmd_guard' = GuardDropped(cmd_guard, c)
    /\ IF RegisterNeeded(cmd_table, mi[c])
       THEN MGoto(c, "ins_lock") /\ UNCHANGED <<mi, mlog>>
       ELSE /\ AfterRegister(c)
            /\ mlog' = mlog \cup {[what |-> "kept", vp |-> mi[c], by |-> c,
                                   had |-> cmd_table[mi[c]]]}
    /\ UNCHANGED <<cmd_table, mcur, mloc, npush>>
    /\ UNCHANGED exCmd

\* CMD.lock().insert(vp_index, LinkedList::new()): the lock is taken again.
RegInsertLock(c) ==
    /\ Runs(c) /\ mpc[c] = "ins_lock"
    /\ CmdLock(c)
    /\ MGoto(c, "ins_put")
    /\ UNCHANGED <<cmd_table, mcur, mi, mloc, npush, mlog>>
    /\ UNCHANGED exCmd

\* BTreeMap::insert puts the empty list in place of what the key held.
RegInsert(c) ==
    /\ Runs(c) /\ mpc[c] = "ins_put"
    /\ cmd_table' = [cmd_table EXCEPT ![mi[c]] = Queue(<<>>)]
    /\ cmd_guard' = GuardDropped(cmd_guard, c)
    /\ mlog' = mlog \cup {[what |-> "insert", vp |-> mi[c], by |-> c,
                           had |-> cmd_table[mi[c]]]}
    /\ AfterRegister(c)
    /\ UNCHANGED <<mcur, mloc, npush>>
    /\ UNCHANGED exCmd

\* enable_vp_vtl / start_virtual_processor with the default context: context
\* c begins exec_handler when its VP next runs its VTL.
MainStarts(c) ==
    /\ Runs(MainCtx) /\ mpc[MainCtx] = "test"
    /\ mpc[c] = "off"
    /\ MGoto(c, "reg_lock")
    /\ UNCHANGED <<cmd_table, cmd_guard, mcur, mi, mloc, npush, mlog>>
    /\ UNCHANGED exCmd

\* cmdt().lock() of a push_back statement.
PushLock(c, from, to) ==
    /\ Runs(c) /\ mpc[c] = from
    /\ npush < MaxCmdPushes
    /\ CmdLock(c)
    /\ MGoto(c, to)
    /\ UNCHANGED <<cmd_table, mcur, mi, mloc, npush, mlog>>
    /\ UNCHANGED exCmd

\* .get_mut(&vp_index).unwrap().push_back((cmd, vtl)); the guard is a
\* temporary of the statement.
CmdPushBack(c, from, to, vp_index, kind, vtl) ==
    /\ Runs(c) /\ mpc[c] = from
    /\ cmd_table[vp_index].some
    /\ cmd_table' = [cmd_table EXCEPT ![vp_index] =
                        Queue(Append(@.list, [kind |-> kind, vtl |-> vtl]))]
    /\ cmd_guard' = GuardDropped(cmd_guard, c)
    /\ npush' = npush + 1
    /\ mloc' = [mloc EXCEPT ![c] = [cmd |-> "", vtl |-> vtl]]
    /\ mi' = [mi EXCEPT ![c] = vp_index]
    /\ MGoto(c, to)
    /\ UNCHANGED <<mcur, mlog>>
    /\ UNCHANGED exCmd

\* switch_to_low_vtl / switch_to_high_vtl by context c: the VP runs its other
\* VTL when that is a move toward vtl and the other context exists.
SwitchVtl(c, vtl, to) ==
    IF vtl # c[2] /\ mpc[<<c[1], vtl>>] # "off"
    THEN mcur' = [mcur EXCEPT ![c[1]] = vtl] /\ MGoto(c, to)
    ELSE mcur' = mcur /\ MGoto(c, "trap")

\* start_on_vp, lines 122-132: after the push, switch when the command is
\* for this VP and another VTL.
StartSwitch(c) ==
    /\ Runs(c) /\ mpc[c] = "t_switch"
    /\ IF mi[c] = c[1] /\ mloc[c].vtl # c[2]
       THEN SwitchVtl(c, mloc[c].vtl, "test")
       ELSE mcur' = mcur /\ MGoto(c, "test")
    /\ mloc' = [mloc EXCEPT ![c] = NoLocals]
    /\ mi' = [mi EXCEPT ![c] = 0]
    /\ UNCHANGED <<cmd_table, cmd_guard, npush, mlog>>
    /\ UNCHANGED exCmd

\* exec_handler, line 341: let mut d = CMD.lock().
LoopLock(c) ==
    /\ Runs(c) /\ mpc[c] = "loop"
    /\ CmdLock(c)
    /\ MGoto(c, "inspect")
    /\ UNCHANGED <<cmd_table, mcur, mi, mloc, npush, mlog>>
    /\ UNCHANGED exCmd

\* Lines 342-355: front, pop_front when the VTL is this one, else remember
\* the VTL; the block ends and d is dropped.
LoopInspect(c) ==
    /\ Runs(c) /\ mpc[c] = "inspect"
    /\ LET d == cmd_table[c[1]]
       IN  IF d.some /\ d.list # <<>>
           THEN IF Head(d.list).vtl = c[2]
                THEN /\ cmd_table' = [cmd_table EXCEPT ![c[1]] =
                                         Queue(Tail(d.list))]
                     /\ mloc' = [mloc EXCEPT ![c] =
                                    [cmd |-> Head(d.list).kind, vtl |-> Vtl2]]
                ELSE /\ cmd_table' = cmd_table
                     /\ mloc' = [mloc EXCEPT ![c] =
                                    [cmd |-> "", vtl |-> Head(d.list).vtl]]
           ELSE cmd_table' = cmd_table /\ mloc' = [mloc EXCEPT ![c] = NoLocals]
    /\ cmd_guard' = BlockEnds(cmd_guard, c)
    /\ MGoto(c, "dispatch")
    /\ UNCHANGED <<mcur, mi, npush, mlog>>
    /\ UNCHANGED exCmd

\* Lines 357-367: switch toward vtl, or invoke cmd(&mut ctx).
LoopDispatch(c) ==
    /\ Runs(c) /\ mpc[c] = "dispatch"
    /\ IF mloc[c].vtl # Vtl2
       THEN SwitchVtl(c, mloc[c].vtl, "loop")
       ELSE mcur' = mcur /\ MGoto(c, IF mloc[c].cmd # "" THEN "body" ELSE "loop")
    /\ UNCHANGED <<cmd_table, cmd_guard, mi, mloc, npush, mlog>>
    /\ UNCHANGED exCmd

\* The body of a command that takes no lock.
BodyRuns(c) ==
    /\ Runs(c) /\ mpc[c] = "body" /\ mloc[c].cmd \in {"log", "low"}
    /\ IF mloc[c].cmd = "low"
       THEN SwitchVtl(c, Vtl0, "loop")
       ELSE mcur' = mcur /\ MGoto(c, "loop")
    /\ mloc' = [mloc EXCEPT ![c] = NoLocals]
    /\ UNCHANGED <<cmd_table, cmd_guard, mi, npush, mlog>>
    /\ UNCHANGED exCmd

\* The switch_to_low_vtl that ends the bring-up closure.
BodySwitch(c) ==
    /\ Runs(c) /\ mpc[c] = "b_switch"
    /\ SwitchVtl(c, Vtl0, "loop")
    /\ mloc' = [mloc EXCEPT ![c] = NoLocals]
    /\ mi' = [mi EXCEPT ![c] = 0]
    /\ UNCHANGED <<cmd_table, cmd_guard, npush, mlog>>
    /\ UNCHANGED exCmd

CmdStep(c) ==
    \/ RegCheckLock(c)
    \/ RegCheck(c)
    \/ RegInsertLock(c)
    \/ RegInsert(c)
    \/ MainStarts(c)
    \/ PushLock(c, "test", "t_push")
    \/ \E v \in VPs, k \in CmdKinds, t \in RunVtls :
           CmdPushBack(c, "t_push", "t_switch", v, k, t)
    \/ StartSwitch(c)
    \/ LoopLock(c)
    \/ LoopInspect(c)
    \/ LoopDispatch(c)
    \/ BodyRuns(c)
    \/ mloc[c].cmd = "push" /\ PushLock(c, "body", "b_push")
    \/ CmdPushBack(c, "b_push", "b_switch", c[1], "log", Vtl1)
    \/ BodySwitch(c)

CmdNext == \E c \in MCtxs : CmdStep(c)

\* ------------------------------------------------------------ Spec
VPStep(v) ==
    \/ MainStartOnVp(v)
    \/ MainQueueCommandVp(v)
    \/ StartEntry(v)
    \/ StartBspPush(v)
    \/ StartSwitchHigh(v)
    \/ StartPush(v)
    \/ StartFinal(v)
    \/ FrameReturn(v)
    \/ BodySwitchLow(v)
    \/ BodyEnableVpVtl(v)
    \/ BodyStartVp(v)
    \/ BodyPushSetCtx(v)
    \/ BodySetVpRegisters(v)
    \/ BodyStartOnVp(v)
    \/ WorkerInit(v)
    \/ WorkerSpin(v)
    \/ WorkerPop(v)
    \/ WorkerSwitch(v)

Next == \E v \in VPs : VPStep(v)

\* The state after construction: no VP but the BSP runs, the pages are zero.
Init ==
    /\ VpInit /\ PageInit /\ CallInit /\ AllocInit /\ LogInit
    /\ ChanInit /\ PanicInit /\ OsIdInit /\ IdtInit /\ StackInit /\ CmdInit

Spec == Init /\ [][Next]_allvars

FairSpec == Spec /\ \A v \in VPs : WF_allvars(VPStep(v))

PageSpec == Init /\ [][PageNext]_allvars

CallSpec == Init /\ [][CallNext]_allvars

AllocSpec == Init /\ [][AllocNext]_allvars

LogSpec == Init /\ [][LogNext]_allvars

ChanSpec == Init /\ [][ChanNext]_allvars

PanicSpec == Init /\ [][PanicNext]_allvars

OsIdSpec == Init /\ [][OsIdNext]_allvars

IdtSpec == Init /\ [][IdtNext]_allvars

StackSpec == Init /\ [][StackNext]_allvars

CmdSpec == Init /\ [][CmdNext]_allvars


\* ================================================================ claims
Entries(v) == {executed[v][i] : i \in DOMAIN executed[v]}

UserSrc == {"start", "queue"}

Stopped == \E v \in VPs : status[v] # "ok"

C2_FifoPerVtl ==
    \A v \in VPs :
        /\ \A i, j \in DOMAIN executed[v] :
              (i < j /\ executed[v][i].tag = executed[v][j].tag)
                  => executed[v][i].id < executed[v][j].id
        /\ \A i \in DOMAIN executed[v], k \in DOMAIN queue[v] :
              queue[v][k].vtl = executed[v][i].tag
                  => queue[v][k].id > executed[v][i].id

\* C2 witness: two test commands with the same target VTL have both started
\* on one VP.
C2_Witness ==
    \E v \in VPs : \E d, e \in Entries(v) :
        /\ d.id # e.id /\ d.tag = e.tag
        /\ d.src \in UserSrc /\ e.src \in UserSrc

\* C3 (as claimed): start_on_vp(0, Vtl1, <logging closure>), the first call
\* of the test body on the BSP in VTL0, eventually returns to its caller.
C3_InCall ==
    /\ calls = 1 /\ qcalls = 0
    /\ Len(stack[BSP][Vtl0]) = 2
    /\ stack[BSP][Vtl0][2].k = "start"
    /\ stack[BSP][Vtl0][2].vp = BSP
    /\ stack[BSP][Vtl0][2].vtl = Vtl1
    /\ stack[BSP][Vtl0][2].body = LogBody

C3_StartOnVpReturns == C3_InCall ~> (Len(stack[BSP][Vtl0]) = 1)

\* C4 (as claimed): every command enqueued by start_on_vp with target Vtl0
\* or Vtl1 is eventually popped and executed; runs in which a VP stopped
\* (panic or trap) are not held against the claim.
IdBound == 8 * (MaxStartCalls + MaxQueueCalls)

C4_Pending(id) ==
    \E v \in VPs : \E k \in DOMAIN queue[v] :
        queue[v][k].id = id /\ queue[v][k].src = "start"

C4_Done(id) == \E v \in VPs : \E e \in Entries(v) : e.id = id

C4_EveryStartedCommandRuns ==
    \A id \in 1..IdBound : C4_Pending(id) ~> (C4_Done(id) \/ Stopped)

\* C5 (as claimed): start_virtual_processor(v, ..) is issued at most once
\* for each VP index v.
C5_StartIssuedAtMostOnce == \A v \in VPs : startIssued[v] <= 1

\* C6: start_on_vp with target Vtl2 panics before any side effect: the step
\* that leaves the entry of such a call stops the VP and changes no queue,
\* no hypervisor state, no VTL and no context (vp_runing).
C6_AtVtl2Entry(v) ==
    /\ Running(v) /\ Top(v).k = "start" /\ Top(v).pc = "entry"
    /\ Top(v).vtl = Vtl2

C6_Vtl2RejectedFirst ==
    [][\A v \in VPs :
          (C6_AtVtl2Entry(v) /\ ~C6_AtVtl2Entry(v)') =>
              /\ status'[v] = "panic_vtl2"
              /\ queue' = queue /\ nextId' = nextId
              /\ cur' = cur /\ hvVtl1' = hvVtl1 /\ hvStarted' = hvStarted
              /\ ctx' = ctx /\ enableOk' = enableOk
              /\ startIssued' = startIssued]_vars

\* C6 witness: a start_on_vp call with target Vtl2 has panicked.
C6_Witness == \E v \in VPs : status[v] = "panic_vtl2"

\* C7 (as claimed): no command queue ever holds a command whose target VTL
\* is Vtl2.
C7_NoVtl2Queued ==
    \A v \in VPs : \A k \in DOMAIN queue[v] : queue[v][k].vtl # Vtl2

\* C8: enable_vp_vtl(v, Vtl1, ..) has returned success before any command
\* tagged Vtl1 starts executing on VP v.
C8_EnabledBeforeVtl1Command ==
    \A v \in VPs : \A e \in Entries(v) : e.tag = Vtl1 => e.en

\* C8 witness: test commands tagged Vtl1 have started on the BSP and on an AP.
C8_Witness ==
    /\ \E e \in Entries(BSP) : e.tag = Vtl1 /\ e.src \in UserSrc
    /\ \E v \in VPs \ {BSP} : \E e \in Entries(v) : e.tag = Vtl1 /\ e.src \in UserSrc

\* C9 (as claimed): after VTL1 wrote a value to a page, applied the VTL
\* protections to a range containing it and switched to the low VTL, the
\* VTL0 read of that page is the same in two runs that differ only in the
\* value written.
C9_Vtl0ReadIndistinguishable == hpc[BSP] = "done" => obsA = obsB

\* The same reads when every dispatch of the BSP read the BSP's own input.
PageOwnInputProtects ==
    (hpc[BSP] = "done" /\ ownInput[BSP]) => (obsA = obsB /\ obsA.fault)

\* C10 (as claimed): every hypercall is dispatched with the input its own
\* wrapper wrote, and every wrapper reads the output of its own hypercall.
C10_ExclusivePages == \A v \in VPs : ownInput[v] /\ ownOutput[v]

EnableFns == {"enable_partition_vtl", "enable_vp_vtl"}

\* No call of the handle is in progress: `last` is the call that just ended.
Returned == cpc \in {"idle", "panic"}

\* C11: enable_partition_vtl and enable_vp_vtl return Ok(()) when the
\* hypervisor answers Ok or VtlAlreadyEnabled and return every other error
\* unchanged; two calls in a row with the same arguments of which the first
\* returned Ok have both returned Ok.
C11_EnableIdempotent ==
    /\ last.fn \in EnableFns =>
           /\ last.hv \in {"Ok", "VtlAlreadyEnabled"} => last.ret = "Ok"
           /\ last.hv \notin {"Ok", "VtlAlreadyEnabled"} => last.ret = last.hv
    /\ (/\ last.fn \in EnableFns
        /\ prev.fn = last.fn /\ prev.vp = last.vp /\ prev.vtl = last.vtl
        /\ prev.ret = "Ok") => last.ret = "Ok"

\* C11 witness: enable_vp_vtl was called twice with the same arguments and
\* the hypervisor answered the second call with VtlAlreadyEnabled.
C11_Witness ==
    /\ last.fn = "enable_vp_vtl" /\ prev.fn = "enable_vp_vtl"
    /\ prev.vp = last.vp /\ prev.vtl = last.vtl
    /\ prev.hv = "Ok" /\ last.hv = "VtlAlreadyEnabled"

\* C12: start_virtual_processor returns Ok(()) exactly when the hypervisor
\* reports success; on every other result it panics and returns nothing.
C12_StartVpFatal ==
    last.fn = "start_virtual_processor" =>
        /\ last.ret = "Ok" <=> last.hv = "Ok"
        /\ last.hv # "Ok" => (last.ret = "panic" /\ cpc = "panic")

\* C12 witness: the hypervisor refused a start_virtual_processor.
C12_Witness ==
    last.fn = "start_virtual_processor" /\ last.hv \in HvErrors

\* C17 (as claimed): no initialize() or uninitialize() panics, and after
\* either the handle is initialized exactly when the call was initialize().
C17_SafeToCallTwice ==
    (Returned /\ last.fn \in {"initialize", "uninitialize"}) =>
        /\ last.ret # "panic"
        /\ initialized <=> last.fn = "initialize"

\* C17 (amended): uninitialize() never panics and leaves the handle
\* uninitialized; initialize() panics exactly when the handle is already
\* initialized and otherwise leaves it initialized.
C17_InitializeOnce ==
    /\ (Returned /\ last.fn = "uninitialize") => (last.ret = "return" /\ ~initialized)
    /\ (Returned /\ last.fn = "initialize") =>
           /\ last.ret = "panic" <=> last.hv = "initialized"
           /\ last.ret = "return" => initialized

\* C17 witness: the handle was initialized again after uninitialize() had
\* been called twice in a row.
C17_Witness ==
    /\ prev.fn = "uninitialize" /\ prev.hv = "uninitialized"
    /\ last.fn = "initialize" /\ last.ret = "return"
    /\ ncalls = 3

\* The hypercalls in `issued` are those of a call of fn, running or just ended.
During(fn) == cpc = fn \/ (cpc \in {"idle", "panic"} /\ last.fn = fn)

RECURSIVE PageLists(_)
\* The page lists of a sequence of hypercalls, concatenated.
PageLists(hs) == IF hs = <<>> THEN <<>> ELSE hs[1].list \o PageLists(Tail(hs))

\* The pages from lo upward, n of them.
Ascending(lo, n) == [i \in 1..n |-> lo + i - 1]

\* C13: the hypercalls of apply_vtl2_protections are ModifyVtlProtectionMask
\* calls of 1 to MaxInputElements pages each with the rep count equal to
\* the batch size; their page lists concatenated are the pages from
\* start_gpn upward in ascending order, each once, never beyond end_gpn-1,
\* and all of start_gpn..end_gpn-1 when the call returns Ok; an empty range
\* returns Ok with no hypercall issued.
C13_BatchesCoverRange ==
    During("apply_vtl2_protections") =>
        LET pages == PageLists(issued)
        IN  /\ \A i \in DOMAIN issued :
                   /\ issued[i].code = "HvCallModifyVtlProtectionMask"
                   /\ issued[i].rep >= 1
                   /\ issued[i].rep <= MaxInputElements
                   /\ issued[i].rep = Len(issued[i].list)
            /\ Len(pages) <= brange.hi - brange.lo
            /\ pages = Ascending(brange.lo, Len(pages))
            /\ (Returned /\ last.ret = "Ok") => Len(pages) = brange.hi - brange.lo
            /\ (Returned /\ brange.lo = brange.hi) => (issued = <<>> /\ last.ret = "Ok")

\* C13 witness: a range of more pages than two full batches was protected
\* and the call returned Ok.
C13_Witness ==
    /\ Returned /\ last.fn = "apply_vtl2_protections" /\ last.ret = "Ok"
    /\ brange.hi - brange.lo > MaxInputElements
    /\ Len(issued) >= 2
    /\ issued[Len(issued)].rep < MaxInputElements

\* C13 witness of the empty range: the call returned with nothing issued.
C13_EmptyWitness ==
    /\ Returned /\ last.fn = "apply_vtl2_protections"
    /\ brange.lo = brange.hi /\ brange.lo > 0

\* C14: in apply_vtl2_protections and accept_vtl2_pages a batch the
\* hypervisor fails is the last hypercall of the call, and the call has
\* returned that batch's error.
C14_FirstFailureEnds ==
    \A fn \in BatchedFns : During(fn) =>
        \A i \in DOMAIN issued : issued[i].res # "Ok" =>
            /\ i = Len(issued)
            /\ Returned
            /\ last.ret = issued[i].res

\* C14 witness: a batch of accept_vtl2_pages failed with pages of the range
\* still to come.
C14_Witness ==
    /\ Returned /\ last.fn = "accept_vtl2_pages"
    /\ issued # <<>>
    /\ issued[Len(issued)].res \in HvErrors
    /\ bcur + issued[Len(issued)].rep < brange.hi

RECURSIVE Reps(_)
\* The rep counts of a sequence of hypercalls, added up.
Reps(hs) == IF hs = <<>> THEN 0 ELSE hs[1].rep + Reps(Tail(hs))

\* C15: the hypercalls of get_vp_index_from_hw_id carry consecutive chunks
\* of the hardware ids, 1 to MaxPerCall ids each, and name VTL0; when the
\* call returns Ok every chunk succeeded with all its elements processed,
\* the chunks cover the ids and the output is what it was before followed
\* by one VP index per id in order.
C15_ChunkedLookup ==
    During("get_vp_index_from_hw_id") =>
        /\ \A i \in DOMAIN issued :
               /\ issued[i].code = "HvCallGetVpIndexFromApicId"
               /\ issued[i].target = "vtl0"
               /\ issued[i].rep >= 1
               /\ issued[i].rep <= MaxPerCall
               /\ issued[i].first = Reps(SubSeq(issued, 1, i - 1))
               /\ issued[i].list =
                      SubSeq(hwIds, issued[i].first + 1, issued[i].first + issued[i].rep)
        /\ (Returned /\ last.ret = "Ok") =>
               /\ \A i \in DOMAIN issued :
                      issued[i].res = "Ok" /\ issued[i].n = issued[i].rep
               /\ Reps(issued) = Len(hwIds)
               /\ out = out0 \o [i \in 1..Len(hwIds) |-> VpIndexOf(hwIds[i])]

\* C15 witness: more ids than one chunk holds were looked up into an output
\* that already held an entry, and the call returned Ok.
C15_Witness ==
    /\ Returned /\ last.fn = "get_vp_index_from_hw_id" /\ last.ret = "Ok"
    /\ Len(hwIds) > MaxPerCall
    /\ out0 # <<>>
    /\ \E i, j \in DOMAIN hwIds : hwIds[i] # hwIds[j]

\* HvTestCtx::get_current_vtl of the context of VP v in VTL t.
GetCurrentVtl(v, t) == ctx[v][t].vtl

\* switch_to_high_vtl has returned to its caller in VTL0 on VP v.
BackInVtl0(v) ==
    /\ cur[v] = Vtl0 /\ status[v] = "ok"
    /\ stack[v][Vtl0] # <<>>
    /\ Top(v).k = "start" /\ Top(v).pc = "mark"

\* C16: a VTL0 context whose VP went to VTL1 by switch_to_high_vtl and came
\* back reports Vtl0 from get_current_vtl, the VTL it runs in, and no step
\* of any VP changes what an initialised context reports.
C16_CurrentVtlKept ==
    /\ [](\A v \in VPs : BackInVtl0(v) => GetCurrentVtl(v, Vtl0) = Vtl0)
    /\ [][\A v \in VPs : \A t \in RunVtls :
              (stack[v][t] # <<>> /\ stack[v][t][1] # WorkerFrame)
                  => GetCurrentVtl(v, t)' = GetCurrentVtl(v, t)]_allvars

\* C16 witness: start_on_vp on the BSP switched to VTL1, a command ran
\* there and returned to VTL0, and the caller is past switch_to_high_vtl.
C16_Witness ==
    /\ BackInVtl0(BSP)
    /\ \E e \in Entries(BSP) : e.tag = Vtl1

\* The initialisations that succeeded among the first n calls.
InitOkBefore(n) == \E j \in 1..(n - 1) : alog[j].op = "init" /\ alog[j].ret

\* C18: a call of alloc, dealloc, realloc or alloc_zeroed goes to the
\* linked-list heap when an earlier init succeeded and to the UEFI allocator
\* otherwise; init returns false exactly when its page allocation failed,
\* and a failed init leaves the flag as it was, false when no init has
\* succeeded; the flag is true exactly when an init has succeeded, and no
\* step takes it from true to false.
C18_OneWaySwitch ==
    /\ [](/\ \A i \in DOMAIN alog : alog[i].op \in AllocOps =>
                 alog[i].dest = IF InitOkBefore(i) THEN "locked_heap"
                                ELSE "uefi_allocator"
          /\ use_locked_heap <=> InitOkBefore(Len(alog) + 1))
    /\ [][use_locked_heap => use_locked_heap']_allvars

\* C18 witness: calls went to the UEFI allocator before and after a failed
\* init, and to the heap after a successful init and a later failed one.
C18_Witness ==
    /\ Len(alog) = 4
    /\ alog[1].op = "init" /\ ~alog[1].ret
    /\ alog[2].op \in AllocOps /\ alog[2].dest = "uefi_allocator"
    /\ alog[3].op = "init" /\ alog[3].ret
    /\ alog[4].op \in AllocOps /\ alog[4].dest = "locked_heap"

\* C18 witness of a failed init after a successful one: the flag stays true.
C18_LateFailureWitness ==
    /\ Len(alog) >= 2
    /\ alog[Len(alog) - 1].op = "init" /\ alog[Len(alog) - 1].ret
    /\ alog[Len(alog)].op = "init" /\ ~alog[Len(alog)].ret

\* The record a byte of a port belongs to: the VP and the number of the
\* record among those the VP has written.
RecordOf(b) == <<b[1], b[2]>>

\* The bytes of every record stand next to each other in the stream of p.
Contiguous(p) ==
    \A i, k \in DOMAIN port[p] :
        (i < k /\ RecordOf(port[p][i]) = RecordOf(port[p][k])) =>
            \A j \in i..k : RecordOf(port[p][j]) = RecordOf(port[p][i])

\* C19 (as claimed): on every serial port the bytes of one record are never
\* interleaved with the bytes of another, whichever logging paths the VPs
\* use.
C19_RecordsAtomic == \A p \in Ports : Contiguous(p)

\* The records written through TmkLogger::log are never interleaved.
LoggerRecordsAtomic == Contiguous("LOGGER")

\* The assertion records among those VP v handed to write_str.
AssertionRecords(v) ==
    SelectSeq(written[v], LAMBDA r : "assertion_result" \in DOMAIN r)

\* C20: the assertion records a VP has handed to the serial writer are, in
\* order, one per tmk_assert! it evaluated, each with assertion_result equal
\* to the value of the condition, and the VP goes on to its next statement
\* once the record is written, whatever the value was.
C20_AssertEmitsAndContinues ==
    \A v \in VPs :
        /\ Len(AssertionRecords(v)) = Len(asserted[v])
        /\ \A i \in DOMAIN asserted[v] :
               AssertionRecords(v)[i].assertion_result = JsonBool(asserted[v][i])
        /\ (lpc[v] = "idle" /\ written[v] # <<>>) => job[v].pos = RecordLen

\* C20 witness: a VP asserted a false and then a true condition; both
\* records are written in full and the VP is at its next statement.
C20_Witness ==
    \E v \in VPs :
        /\ asserted[v] = <<FALSE, TRUE>>
        /\ lpc[v] = "idle"
        /\ \E i, k \in DOMAIN port["SERIAL"] :
               /\ port["SERIAL"][i] = <<v, 1, RecordLen>>
               /\ port["SERIAL"][k] = <<v, 2, RecordLen>>

\* C27 (as claimed): a start_on_vp call is on the self-bring-up branch (about
\* to queue the bootstrap command) only when its target is the caller's own
\* VP, and a bring-up closure for VP u is queued only by a caller on
\* another VP, on whose queue it sits.
C27_BranchByOwnIndex ==
    /\ \A v \in VPs :
           (Running(v) /\ Top(v).k = "start" /\ Top(v).pc = "bsp_push")
               => Top(v).vp = MyCtx(v).my_vp_idx
    /\ \A u \in VPs : \A k \in DOMAIN queue[u] :
           queue[u][k].body.kind = "bringup" => queue[u][k].body.vp # u

\* VP v's worker in VTL1 has run the closure that sets v's VTL0 registers.
SetCtxRan(v) == \E e \in Entries(v) : e.kind = "setctx"

\* C28 (as claimed): on an AP the VTL1 worker issues a switch to VTL0 only
\* after the command that sets the VP's VTL0 registers has executed on it.
C28_RegistersBeforeVtl0 ==
    [][\A v \in VPs \ {BSP} :
          (WorkerAt(v, "loop") /\ cur[v] = Vtl1 /\ MyQueue(v) # <<>>
              /\ ~VtlMatches(Head(MyQueue(v)).vtl, MyCtx(v).vtl)
              /\ Head(MyQueue(v)).vtl = Vtl0
              /\ (cur'[v] # cur[v] \/ status'[v] # status[v]))
          => SetCtxRan(v)]_allvars

\* VP v's worker is at the top of its loop and the front command of its
\* queue is tagged with a VTL other than the worker's.
FrontElsewhere(v) ==
    /\ WorkerAt(v, "loop") /\ MyQueue(v) # <<>>
    /\ ~VtlMatches(Head(MyQueue(v)).vtl, MyCtx(v).vtl)

\* A step changed the VTL or the status of VP v: v issued a switch.
Switched(v) == cur'[v] # cur[v] \/ status'[v] # status[v]

\* C29: while the front command of a worker's queue is tagged with another
\* VTL, no step pops or reorders the queue (it only grows at the tail), the
\* worker invokes no command body, and the switch it issues is a vtl_return
\* when the front's target is Vtl0 and a vtl_call otherwise; a worker whose
\* queue is empty changes neither its VTL, its status, its stack nor the
\* commands it has run.
C29_MismatchOnlySwitches ==
    [][\A v \in VPs :
          /\ FrontElsewhere(v) =>
                 /\ \A u \in VPs : SubSeq(queue'[u], 1, Len(queue[u])) = queue[u]
                 /\ executed'[v] = executed[v]
                 /\ stack'[v][cur[v]] = stack[v][cur[v]]
                 /\ Switched(v) => IF Head(MyQueue(v)).vtl = Vtl0
                                   THEN VtlReturn(v) ELSE VtlCall(v)
          /\ (WorkerAt(v, "loop") /\ MyQueue(v) = <<>>) =>
                 /\ ~Switched(v)
                 /\ executed'[v] = executed[v]
                 /\ stack'[v][cur[v]] = stack[v][cur[v]]]_allvars

\* C29 witness: an AP is in VTL0 because its VTL1 worker, back at the top
\* of its loop, found a Vtl0 command at the front, and the command is still
\* at the front of the queue.
C29_Witness ==
    \E v \in VPs \ {BSP} :
        /\ cur[v] = Vtl0 /\ status[v] = "ok"
        /\ stack[v][Vtl1] # <<>>
        /\ stack[v][Vtl1][Len(stack[v][Vtl1])].k = "worker"
        /\ stack[v][Vtl1][Len(stack[v][Vtl1])].pc = "loop"
        /\ queue[v] # <<>> /\ Head(queue[v]).vtl = Vtl0
        /\ Head(queue[v]).src \in UserSrc

\* C30: a queue_command_vp call for a registered VP index appends the
\* command with its tag at the tail of that VP's queue and changes no other
\* queue, no context (vp_runing), no VTL, no status, no stack and nothing at
\* the hypervisor; for an index with no queue it panics and changes no
\* queue.
C30_QueueOnlyAppends ==
    [][qcalls' # qcalls =>
          /\ \/ /\ status' = status
                /\ \E vp \in VPs :
                       /\ Len(queue'[vp]) = Len(queue[vp]) + 1
                       /\ SubSeq(queue'[vp], 1, Len(queue[vp])) = queue[vp]
                       /\ queue'[vp][Len(queue'[vp])].src = "queue"
                       /\ \A u \in VPs \ {vp} : queue'[u] = queue[u]
             \/ /\ \E v \in VPs : status' = [status EXCEPT ![v] = "panic_noqueue"]
                /\ queue' = queue
          /\ UNCHANGED <<stack, ctx, cur, hvVtl1, hvStarted, startIssued, executed>>
      ]_allvars

\* C30 witness: a command was queued behind another one on a VP's queue,
\* and the caller went on to its next call.
C30_Witness ==
    /\ qcalls = 1 /\ calls = MaxStartCalls /\ status[BSP] = "ok"
    /\ \E vp \in VPs :
           /\ Len(queue[vp]) >= 2
           /\ queue[vp][Len(queue[vp])].src = "queue"

\* C30 witness of the unregistered index: the call panicked.
C30_NoQueueWitness == \E v \in VPs : status[v] = "panic_noqueue"

\* VP v is inside a start_on_vp that a closure of its worker loop called for
\* v itself and the VTL the worker is not in.
Reentrant(v) ==
    /\ Running(v) /\ Top(v).k = "start"
    /\ Stk(v)[1].k = "worker"
    /\ Top(v).vp = v /\ Top(v).vtl # cur[v]

\* C25 (as claimed): no step of a re-entrant start_on_vp stops the VP it
\* runs on: the call gets through its switches, so that the calling closure
\* can resume and finish.
C25_ReentrantDispatchProceeds ==
    [][\A v \in VPs : Reentrant(v) => status'[v] = "ok"]_allvars

\* The value of key k in the JSON object r, when r has that key.
Has(r, k, values) == k \in DOMAIN r /\ r[k] \in values

\* The levels of the log macros and of the log crate.
LevelNames == {"DEBUG", "INFO", "WARNING", "WARN", "ERROR", "CRITICAL", "TRACE"}

\* A log record: keys type ("log"), level, message and line.
IsLogRecord(r) ==
    /\ Has(r, "type", {"log"})
    /\ Has(r, "level", LevelNames)
    /\ {"message", "line"} \subseteq DOMAIN r

\* An assertion record: keys type ("assertion"), message, level
\* ("CRITICAL"), line and assertion_result.
IsAssertionRecord(r) ==
    /\ Has(r, "type", {"assertion"})
    /\ Has(r, "level", {"CRITICAL"})
    /\ Has(r, "assertion_result", {"true", "false"})
    /\ {"message", "line"} \subseteq DOMAIN r

\* C26 (as claimed): every record a VP hands to a serial writer, through the
\* log macros, tmk_assert! or TmkLogger::log, is a log record or an
\* assertion record with the keys of the schema.
C26_RecordsFollowSchema ==
    \A v \in VPs : \A i \in DOMAIN written[v] :
        IsLogRecord(written[v][i]) \/ IsAssertionRecord(written[v][i])

\* The records TmkLogger::log writes follow the schema of log records.
LoggerRecordsFollowSchema ==
    \A v \in VPs : \A i \in DOMAIN written[v] :
        "type" \in DOMAIN written[v][i] => IsLogRecord(written[v][i])

\* C22 (as claimed): an initialize() whose read of the VTL status failed
\* does not return as if it had succeeded: it ends in a panic, and the
\* handle does not hold a VTL that no read reported.
C22_StatusReadNotDefaulted ==
    (Returned /\ last.fn = "initialize" /\ vsm_read.res \in HvErrors) =>
        last.ret = "panic"

\* The cached VTL of a handle is the one its last successful status read
\* reported.
C22_CachedVtlWasRead ==
    (Returned /\ last.fn = "initialize" /\ vsm_read.res = "Ok") =>
        hvcall_vtl = vsm_read.active

\* What VP v's panic handler has done so far.
Done(v) == {plog[v][i] : i \in DOMAIN plog[v]}

\* C21 (as claimed): the handler's first act is the Error-level record; a
\* handler that found the system table asks for the shutdown instead of
\* going on to the trap, so that the trap is reached only without a system
\* table or after a reset request.
C21_ShutdownBeforeTrap ==
    \A v \in VPs :
        /\ Len(plog[v]) >= 2 => plog[v][2] = "errorlog"
        /\ ppc[v] \in {"fallback", "trap", "trapped"} =>
               table[v] = "none" \/ "reset_system" \in Done(v)

\* The handler logs first and, once entered, never returns to the code that
\* panicked.
PanicHandlerNeverReturns ==
    [][\A v \in VPs : ppc[v] # "run" => ppc'[v] # "run"]_allvars

\* The items the channel accepted, in the order of the calls' returns.
Accepted == SelectSeq(clog, LAMBDA e : e.op # "recv" /\ e.ret = "Ok")

Items(es) == {es[i].item : i \in DOMAIN es}

\* C23 (as claimed): the buffer never holds more items than the capacity
\* given to Channel::new.
C23_NeverOverCapacity == Len(buffer) <= Capacity

\* A send that finds the buffer full returns Err and leaves it as it was;
\* every other send is accepted.
SendOnFullRejected ==
    \A i \in DOMAIN clog :
        clog[i].op = "send" =>
            /\ clog[i].ret = "Err" <=> Len(clog[i].found) >= Capacity
            /\ clog[i].ret = "Err" =>
                   \/ i = Len(clog) /\ buffer = clog[i].found
                   \/ i < Len(clog) /\ clog[i + 1].found = clog[i].found

\* The returns of recv, by position in the history.
RecvAt == {i \in DOMAIN clog : clog[i].op = "recv"}

\* Item x was returned by a recv before position k of the history.
ReceivedBefore(x, k) == \E i \in RecvAt : i < k /\ clog[i].ret = x

\* C24: recv returns the item at the front of a non-empty buffer, an item
\* some send or send_priority put there; no item is returned twice and none
\* is lost; of two items passed to send the later one is returned only
\* after the earlier one; an item passed to send_priority is returned
\* before each item that was buffered when it was pushed.
C24_OrderAndDelivery ==
    /\ \A i \in RecvAt :
           /\ clog[i].found # <<>> /\ clog[i].ret = Head(clog[i].found)
           /\ \E j \in 1..(i - 1) :
                  clog[j].op # "recv" /\ clog[j].ret = "Ok" /\ clog[j].item = clog[i].ret
    /\ \A i, j \in RecvAt : clog[i].ret = clog[j].ret => i = j
    /\ Items(Accepted) =
           {buffer[i] : i \in DOMAIN buffer} \cup {clog[i].ret : i \in RecvAt}
    /\ Len(buffer) + Cardinality(RecvAt) = Len(Accepted)
    /\ \A i, j \in DOMAIN clog :
           (i < j /\ clog[i].op = "send" /\ clog[j].op = "send"
                 /\ clog[i].ret = "Ok" /\ clog[j].ret = "Ok") =>
               \A k \in RecvAt :
                   clog[k].ret = clog[j].item => ReceivedBefore(clog[i].item, k)
    /\ \A i \in DOMAIN clog :
           clog[i].op = "send_priority" =>
               \A k \in RecvAt : \A n \in DOMAIN clog[i].found :
                   clog[k].ret = clog[i].found[n] => ReceivedBefore(clog[i].item, k)

\* C24 witness: an item was pushed with send_priority in front of a
\* buffered one; the next recv returned the priority item and the one after
\* it the other item.
C24_Witness ==
    /\ Len(clog) = 4
    /\ clog[1].op = "send" /\ clog[2].op = "send_priority"
    /\ clog[2].found = <<clog[1].item>>
    /\ clog[3].op = "recv" /\ clog[3].ret = clog[2].item
    /\ clog[4].op = "recv" /\ clog[4].ret = clog[1].item
    /\ buffer = <<>>

\* C23 witness of the rejected send: the buffer is full and a send returned
\* Err.
C23_FullWitness ==
    /\ Len(buffer) = Capacity
    /\ clog # <<>> /\ clog[Len(clog)].op = "send" /\ clog[Len(clog)].ret = "Err"

\* C40 (as claimed): every dealloc and realloc goes to the allocator that
\* handed out the block it is given.
C40_FreedWhereAllocated ==
    \A i \in DOMAIN alog :
        alog[i].op \in {"dealloc", "realloc"} => alog[i].dest = alog[i].owner

\* C31 (as claimed): when low_vtl issues the VtlReturn hypercall, the input
\* page is all zero, whatever the other VPs are doing with the page.
C31_ZeroInputAtVtlReturn ==
    [][\A v \in VPs :
          (hpc[v] = "lv_fill" /\ hpc'[v] # "lv_fill") => inputPage = ZeroPage]_allvars

\* The page is zero at the VtlReturn of a VP whose dispatches all read what
\* the VP itself had written.
LowVtlZeroWhenUndisturbed ==
    [][\A v \in VPs :
          (hpc[v] = "lv_fill" /\ hpc'[v] # "lv_fill" /\ ownInput'[v])
              => inputPage = ZeroPage]_allvars

\* The commands in the queues and the commands the workers have invoked.
QueuedIds == UNION {{queue[v][k].id : k \in DOMAIN queue[v]} : v \in VPs}

C36_CachedVtlIsActiveVtl ==
    (Returned /\ last.fn = "initialize" /\ last.ret = "return") =>
        hvcall_vtl = vsm_read.active

\* In the orchestrator, where every status read succeeds, the VTL cached by
\* the context that is running on a VP is the VTL the VP is in, through all
\* the switches.
CachedVtlCurrentWhenRead ==
    \A v \in VPs : (Running(v) /\ ~WorkerAt(v, "init")) => MyCtx(v).vtl = cur[v]

\* C39 (as claimed): while some context is live and initialized, the
\* guest-OS identity is registered, so that every hypercall of an
\* initialized context is issued with the identity in place.
C39_GuestOsIdKept ==
    /\ (\E h \in Ctxs : handles[h] = "initialized") => guest_os_id
    /\ \A i \in DOMAIN olog : olog[i].what = "hypercall" => olog[i].os_id

\* The identity is registered while a single context is live.
OsIdKeptForOneCtx ==
    (\E h \in Ctxs : handles[h] = "initialized" /\ \A g \in Ctxs \ {h} :
         \A i \in DOMAIN olog : olog[i].ctx # g) => guest_os_id

\* The handler address the offset fields of a descriptor stand for:
\* offset_low | offset_mid << 16 | offset_high << 32.
Reassembled(entry) == entry.offset_low \o entry.offset_mid \o entry.offset_high

\* The P bit, and the gate type 0xE of a 64-bit interrupt gate.
Present(entry) == entry.type_attr[8] = 1

InterruptGate(entry) == SubSeq(entry.type_attr, 1, 4) = <<0, 1, 1, 1>>

\* C34 (as claimed): after set_int_handler, whatever the handler address and
\* the prior descriptor, the offsets reassemble to the handler, type_attr says
\* present and interrupt gate, and selector, ist and reserved are as before.
C34_DescriptorInstalled ==
    \A i \in DOMAIN ilog :
        /\ Reassembled(ilog[i].after) = ilog[i].handler
        /\ Present(ilog[i].after)
        /\ InterruptGate(ilog[i].after)
        /\ ilog[i].after.selector = ilog[i].before.selector
        /\ ilog[i].after.ist = ilog[i].before.ist
        /\ ilog[i].after.reserved = ilog[i].before.reserved

\* What set_int_handler does establish: the offsets and the untouched fields
\* for every prior descriptor, the gate for a prior present interrupt gate.
HandlerOffsetsInstalled ==
    \A i \in DOMAIN ilog :
        /\ Reassembled(ilog[i].after) = ilog[i].handler
        /\ ilog[i].after.selector = ilog[i].before.selector
        /\ ilog[i].after.ist = ilog[i].before.ist
        /\ ilog[i].after.reserved = ilog[i].before.reserved
        /\ Present(ilog[i].before) /\ InterruptGate(ilog[i].before)
             => Present(ilog[i].after) /\ InterruptGate(ilog[i].after)

\* The threads that hold a MutexGuard of the channel's mutex.
Guards == {t \in Threads : tpc[t] = "locked"}

\* C33: at most one MutexGuard of the mutex exists at any time, and the lock
\* flag is set exactly while one exists.
C33_MutualExclusion ==
    /\ Cardinality(Guards) <= 1
    /\ (mutex # NoThread) <=> (Guards # {})

\* One thread holds the guard while another spins in lock().
C33_Witness ==
    \E t, u \in Threads : t # u /\ tpc[t] = "locked" /\ tpc[u] = "lock"

\* The entries of rlog that returned a context.
Made == {i \in DOMAIN rlog : rlog[i].ret = "Ok"}

StackOf(i) == HeapBlock(rlog[i].x, SIZE_1MB, TRUE)

Apart(b, c) == b.base + b.size <= c.base \/ c.base + c.size <= b.base

\* C32: a returned context is the snapshot but for rip (the entry function)
\* and rsp (the end of a block that was not live before the call); the stacks
\* stay allocated and no two of them overlap; a null allocation gives Err and
\* no context.
C32_ContextFromSnapshot ==
    /\ \A i \in Made :
          /\ \A f \in DOMAIN rlog[i].snapshot \ {"rip", "rsp"} :
                 rlog[i].context[f] = rlog[i].snapshot[f]
          /\ DOMAIN rlog[i].context = DOMAIN rlog[i].snapshot
          /\ rlog[i].context.rip = rlog[i].func
          /\ rlog[i].context.rsp = rlog[i].x + SIZE_1MB
          /\ \A b \in rlog[i].before : Apart(b, StackOf(i))
          /\ StackOf(i) \in live
    /\ \A i, j \in Made : i # j => Apart(StackOf(i), StackOf(j))
    /\ \A i \in DOMAIN rlog :
          (rlog[i].x = 0) <=> (rlog[i].ret = "Err" /\ rlog[i].context = NoContext)

\* Two contexts exist, other blocks were allocated and freed around them, and
\* one call found no memory.
C32_Witness ==
    /\ Cardinality(Made) = 2
    /\ nother = MaxOtherAllocs
    /\ \A b \in live : b.is_stack

C32_ErrWitness ==
    \E i, j \in DOMAIN rlog : rlog[i].ret = "Ok" /\ rlog[j].ret = "Err"

\* Context c is about to switch VTL or to run a command body, or runs one.
AtSwitchOrBody(c) == mpc[c] \in {"t_switch", "dispatch", "body", "b_switch"}

\* C37: a context that is at a VTL switch or in a command body holds no guard
\* of CMD, and the holder of a guard is always the context its VP executes.
C37_NoGuardAcrossSwitch ==
    \A c \in MCtxs :
        /\ AtSwitchOrBody(c) => c \notin cmd_guard
        /\ c \in cmd_guard => Runs(c)

\* A worker of VTL1 took the lock on a VP whose VTL0 context had pushed and
\* switched high.
C37_Witness ==
    \E v \in VPs :
        /\ <<v, Vtl1>> \in cmd_guard
        /\ mpc[<<v, Vtl0>>] \in {"test", "loop"}
        /\ npush > 0

\* C38: no step of register_command_queue changes a queue that exists: the
\* queue and its commands stay, whatever the other contexts do in between.
C38_NoQueueReplaced ==
    [][\A c \in MCtxs, v \in VPs :
          (mpc[c] \in {"reg_lock", "reg_get", "ins_lock", "ins_put"}
              /\ mpc'[c] # mpc[c] /\ cmd_table[v].some)
          => cmd_table'[v] = cmd_table[v]]_allvars

\* Every insert was made for an index that had no queue.
InsertsFoundNoQueue == \A e \in mlog : e.what = "insert" => ~e.had.some

\* A worker re-ran init and its register_command_queue found a queue that
\* held a command.
C38_Witness ==
    \E e \in mlog :
        e.what = "kept" /\ e.by # MainCtx /\ e.had.some /\ e.had.list # <<>>

====
